---- MODULE Spec2Model ----
(***************************************************************************)
(* Model of the TODOforAI benchmark adapters:                              *)
(*   - terminal-bench/todoforai_tbench/config.py  (TBenchConfig)           *)
(*   - terminal-bench/todoforai_tbench/agent.py   (TODOforAIAgent)         *)
(*   - terminal-bench/todoforai_tbench/direct_agent.py                     *)
(*   - adapter/mind2web_adapter.py  (TaskRunner, Mind2WebBenchmark)        *)
(* Specifications:                                                         *)
(*   SpecConfig  the constructors under an environment                     *)
(*   SpecDict    the constructors and to_dict() without environment        *)
(*   SpecRotate  next_api_key() called by one thread                       *)
(*   SpecPool    next_api_key() called by the threads of parallel tasks    *)
(*   Spec        Mind2WebBenchmark.run_all() driving an agent function     *)
(*   SpecRunner  a TaskRunner driven by hand                               *)
(*   SpecAgent   TODOforAIAgent: construction and one perform_task         *)
(*   SpecAgentTests  the imports and attribute reads of the unit tests     *)
(*   SpecReuse   perform_task called again on the same agent               *)
(*   SpecDirect  the loop of TODOforAIDirectAgent.perform_task             *)
(*   SpecLoad    load_config() on a file system                            *)
(*   SpecLoader  Mind2WebBenchmark._load_tasks and get_task                *)
(* Python values are modelled as follows: None is the string NoneVal, a    *)
(* dict is a function whose DOMAIN is its key set, a list is a sequence.   *)
(***************************************************************************)
EXTENDS Integers, Sequences, FiniteSets, TLC

VARIABLES
    env,        \* os.environ restricted to the variables config.py reads
    data,       \* the dictionary handed to the constructor / from_dict / read from the file
    how,        \* which constructor is used: "direct", "from_dict", "from_file"
    config,     \* the TBenchConfig object (fields, extra, _key_counter, _key_lock)
    built,      \* TRUE once the object has been constructed
    dumped,     \* the last value returned by to_dict(), the empty dict before
    threads,    \* the threads (parallel benchmark tasks) sharing the config object
    th,         \* per thread: position in next_api_key / _run_task and its locals
    returned,   \* history: the calls of next_api_key that returned, in order of return
    ncalls,     \* history: the number of calls of next_api_key started
    tasks,      \* Mind2WebBenchmark.tasks, in the order of human_label.json
    fs,         \* the output directory: per task id its directories, screenshots and result.json
    runner,     \* the current TaskRunner
    rpc,        \* where the caller is: "idle", "loop", "agent", "done" (run_all) or "manual"
    args,       \* the arguments of run_all: resume and max_tasks
    tasks_to_run, \* run_all's local list, as positions in tasks
    idx,        \* run_all's loop index i
    results,    \* run_all's counters success / failure / error
    hist,       \* history of the calls made on the recorder and of the run
    agent,      \* the TODOforAIAgent object: its attributes, none before construction
    pt,         \* the frame of TODOforAIAgent.perform_task: position and locals
    session,    \* the tmux session and the container behind it
    ahist,      \* history of the calls made on the agent
    probe,      \* the last import from / attribute read on agent.py and its outcome
    direct,     \* the TODOforAIDirectAgent: its state and the frame of perform_task
    files,      \* the configuration files: per search path its JSON content, if it exists
    config_path, \* the argument of load_config
    labels,     \* the items of human_label.json
    tasks_by_id, \* Mind2WebBenchmark.tasks_by_id
    got         \* the last get_task call: its argument and what it returned

cfgvars == <<env, data, how, config, built, dumped>>

poolvars == <<threads, th, returned, ncalls>>

benchvars == <<tasks, fs, runner, rpc, args, tasks_to_run, idx, results, hist>>

bridgevars == <<agent, pt, session, ahist, probe, direct>>

loadvars == <<files, config_path, labels, tasks_by_id, got>>

vars == <<env, data, how, config, built, dumped, threads, th, returned, ncalls,
          tasks, fs, runner, rpc, args, tasks_to_run, idx, results, hist,
          agent, pt, session, ahist, probe, direct,
          files, config_path, labels, tasks_by_id, got>>

----------------------------------------------------------------------------
(* Python values *)

NoneVal == "<None>"

\* Python truthiness of an Optional[str]
Truthy(x) == x # NoneVal /\ x # ""

\* Python `a or b` on Optional[str]
PyOr(a, b) == IF Truthy(a) THEN a ELSE b

\* the empty dict
EmptyDict == [k \in {} |-> NoneVal]

\* {k: v for k, v in d.items() if k in S}
Restrict(d, S) == [k \in (DOMAIN d) \cap S |-> d[k]]

----------------------------------------------------------------------------
(* config.py : TBenchConfig *)

DefaultApiUrl == "http://localhost:4000"

\* the dataclass defaults (config.py lines 18-43); the lock is modelled by the
\* thread that holds it, 0 while it is free
Defaults ==
    [ api_url        |-> DefaultApiUrl,
      api_key        |-> "",
      api_keys       |-> <<>>,
      default_model  |-> "claude-sonnet-4-5",
      default_agent  |-> "Agent",
      project_id     |-> NoneVal,
      timeout        |-> 600,
      max_iterations |-> 100,
      log_dir        |-> "./logs",
      verbose        |-> FALSE,
      track_tokens   |-> TRUE,
      extra          |-> EmptyDict,
      key_counter    |-> 0,
      key_lock       |-> 0 ]

known_fields ==
    { "api_url", "api_key", "api_keys", "default_model", "default_agent",
      "project_id", "timeout", "max_iterations", "log_dir", "verbose", "track_tokens" }

\* str.strip() on the comma-separated segments the model uses
Strip(s) ==
    CASE s = " "    -> ""
      [] s = " k2"  -> "k2"
      [] s = "k1 "  -> "k1"
      [] OTHER      -> s

\* [x for x in xs if x]
RECURSIVE DropEmpty(_)
DropEmpty(xs) ==
    IF xs = <<>> THEN <<>>
    ELSE IF Head(xs) = "" THEN DropEmpty(Tail(xs))
         ELSE <<Head(xs)>> \o DropEmpty(Tail(xs))

\* [k.strip() for k in keys_str.split(",") if k.strip()]; keys_str is held as
\* the sequence of its comma-separated segments, <<"">> being the empty string
ParseKeys(keys_str) == DropEmpty([i \in 1..Len(keys_str) |-> Strip(keys_str[i])])

\* os.environ.get("TODOFORAI_API_KEYS", "")
EnvKeysStr(e) == e["TODOFORAI_API_KEYS"]

\* the generated __init__: the defaults overridden by the keyword arguments
InitFields(kwargs) ==
    [k \in DOMAIN Defaults |-> IF k \in DOMAIN kwargs THEN kwargs[k] ELSE Defaults[k]]

\* a loader in which a value of the file is kept and the environment only fills gaps
SetFromEnvFileWins(cur, envval) == IF Truthy(cur) THEN cur ELSE PyOr(envval, cur)

\* `if env_x: self.x = env_x` (lines 48-49, 54-55, 66-67)
SetFromEnv(cur, envval) == IF Truthy(envval) THEN envval ELSE cur

\* a key pool that leaves the project of the config file in place
pool_project_kept(project, keys_str, env_project_id) == project

\* lines 71-75: a key pool from the environment clears the project unless the
\* environment names one
pool_project(project, keys_str, env_project_id) ==
    IF keys_str # <<"">> /\ ~Truthy(env_project_id) THEN NoneVal ELSE project

\* __post_init__ (lines 45-81), assignment by assignment
post_init(c, e) ==
    LET env_api_url    == PyOr(e["TODOFORAI_API_URL"], e["TODO4AI_API_URL"])
        api_url0       == SetFromEnv(c.api_url, env_api_url)
        api_url        == IF ~Truthy(env_api_url) /\ ~Truthy(api_url0)
                          THEN DefaultApiUrl ELSE api_url0
        env_api_key    == PyOr(e["TODOFORAI_API_KEY"], e["TODO4AI_API_KEY"])
        api_key1       == SetFromEnv(c.api_key, env_api_key)
        env_project_id == PyOr(e["TODOFORAI_PROJECT_ID"], e["TODO4AI_PROJECT_ID"])
        project1       == IF env_project_id # NoneVal
                          THEN PyOr(env_project_id, NoneVal)
                          ELSE IF Truthy(env_api_key) THEN NoneVal ELSE c.project_id
        env_agent      == e["TODOFORAI_AGENT"]
        default_agent  == SetFromEnv(c.default_agent, env_agent)
        keys_str       == EnvKeysStr(e)
        api_keys1      == IF keys_str # <<"">> THEN ParseKeys(keys_str) ELSE c.api_keys
        project2       == pool_project(project1, keys_str, env_project_id)
        api_keys2      == IF Truthy(api_key1) /\ api_keys1 = <<>>
                          THEN <<api_key1>> ELSE api_keys1
        api_key2       == IF ~(Truthy(api_key1) /\ api_keys1 = <<>>)
                             /\ api_keys1 # <<>> /\ ~Truthy(api_key1)
                          THEN api_keys1[1] ELSE api_key1
    IN  [c EXCEPT !.api_url = api_url, !.api_key = api_key2, !.api_keys = api_keys2,
                  !.project_id = project2, !.default_agent = default_agent]

\* TBenchConfig(**kwargs)
TBenchConfig(kwargs, e) == post_init(InitFields(kwargs), e)

\* TBenchConfig.from_dict (lines 92-106)
from_dict(d, e) ==
    LET kwargs == Restrict(d, known_fields)
        extra  == Restrict(d, (DOMAIN d) \ known_fields)
    IN  [TBenchConfig(kwargs, e) EXCEPT !.extra = extra]

\* TBenchConfig.from_file (lines 108-113): json.load, then from_dict
from_file(d, e) == from_dict(d, e)

\* a to_dict that forgets **self.extra
to_dict_fields_only(c) == [k \in known_fields |-> c[k]]

\* TBenchConfig.to_dict (lines 115-130): the fields, then **self.extra
to_dict(c) ==
    [k \in known_fields \cup DOMAIN c.extra |->
        IF k \in DOMAIN c.extra THEN c.extra[k] ELSE c[k]]

----------------------------------------------------------------------------
(* adapter/mind2web_adapter.py : Task, Action, TaskRunner                   *)
(* An Optional dict or exception is a sequence of length 0 (None) or 1.     *)
(* The document of result.json is a function from its keys; the timestamps  *)
(* of _metadata are left out.                                               *)

TaskIds == {"t1", "t2"}

\* Task (lines 48-60)
Task(id) == [task_id |-> id, description |-> "do " \o id, human_labels |-> EmptyDict]

NoTask == [task_id |-> NoneVal, description |-> NoneVal, human_labels |-> EmptyDict]

\* one task directory <output_dir>/<task_id> that does not exist yet
NoDir == [dir |-> FALSE, trajectory |-> FALSE, shots |-> {}, result |-> <<>>]

\* str.upper() on the action types the model uses
Upper(s) ==
    CASE s = "click" -> "CLICK"
      [] s = "type"  -> "TYPE"
      [] OTHER       -> s

\* a rendering that forgets .upper()
to_mind2web_format_lower(a) ==
    IF Truthy(a.value)
    THEN "<" \o a.selector \o "> -> " \o a.action_type \o ": " \o a.value
    ELSE "<" \o a.selector \o "> -> " \o a.action_type

\* Action.to_mind2web_format (lines 71-75)
to_mind2web_format(a) ==
    IF Truthy(a.value)
    THEN "<" \o a.selector \o "> -> " \o Upper(a.action_type) \o ": " \o a.value
    ELSE "<" \o a.selector \o "> -> " \o Upper(a.action_type)

\* dict.get(k, default)
Get(d, k, default) == IF k \in DOMAIN d THEN d[k] ELSE default

\* TaskRunner.__init__ (lines 89-104): the object
TaskRunner(task) ==
    [ task |-> task, actions |-> <<>>, thoughts |-> <<>>, screenshot_count |-> 0,
      completed |-> FALSE, final_result |-> <<>> ]

\* TaskRunner.__init__ (lines 95-96): the two mkdir calls
MakeDirs(f, id) == [f EXCEPT ![id].dir = TRUE, ![id].trajectory = TRUE]

NoRunner == TaskRunner(NoTask)

\* f"{self.screenshot_count}_{suffix}.png" (line 117)
Filename(count, suffix) == ToString(count) \o "_" \o suffix \o ".png"

\* TaskRunner.screenshot (lines 106-137): whether the call raises, whether it
\* writes the file, and the runner, directory and path it leaves
screenshot(r, f, image, suffix) ==
    LET filename == Filename(r.screenshot_count, suffix)
        id       == r.task.task_id
        raises   == image.type \notin {"str", "Path", "bytes", "PIL"}
        writes   == CASE image.type \in {"str", "Path"}
                           -> image.exists \/ (image.type = "str" /\ image.long)
                      [] image.type = "bytes" -> TRUE
                      [] image.type = "PIL"   -> TRUE
                      [] OTHER                -> FALSE
    IN  [ raised |-> raises,
          runner |-> IF raises THEN r
                     ELSE [r EXCEPT !.screenshot_count = r.screenshot_count + 1],
          fs     |-> IF writes THEN [f EXCEPT ![id].shots = f[id].shots \cup {filename}]
                     ELSE f,
          ret    |-> filename ]

\* TaskRunner.add_action (lines 139-162): the string appended to self.actions
add_action(action) ==
    CASE action.kind = "Action" -> to_mind2web_format(action.obj)
      [] action.kind = "str"    -> action.text
      [] action.kind = "dict"   ->
            to_mind2web_format(
                [ action_type |-> Get(action.d, "type", Get(action.d, "action_type", "click")),
                  selector    |-> Get(action.d, "selector", Get(action.d, "element", "")),
                  value       |-> Get(action.d, "value", NoneVal),
                  description |-> Get(action.d, "description", NoneVal) ])
      [] OTHER                  -> action.text

\* TaskRunner.complete (lines 187-211): the result dictionary
complete_doc(r, status, final_response, url, metadata) ==
    LET base  == [ task_id               |-> r.task.task_id,
                   task                  |-> r.task.description,
                   action_history        |-> r.actions,
                   thoughts              |-> r.thoughts,
                   final_result_response |-> IF Truthy(final_response) THEN final_response
                                             ELSE "Task " \o status ]
        base2 == IF Truthy(url) THEN ("final_url" :> url) @@ base ELSE base
        base3 == IF metadata # <<>> /\ DOMAIN metadata[1] # {}
                 THEN metadata[1] @@ base2 ELSE base2
    IN  ("_metadata" :> [ num_actions     |-> Len(r.actions),
                          num_screenshots |-> r.screenshot_count ]) @@ base3

\* TaskRunner.complete (lines 168-219): the runner, the directory and the
\* returned dictionary
complete(r, f, status, final_response, url, metadata) ==
    LET result == complete_doc(r, status, final_response, url, metadata)
    IN  [ runner |-> [r EXCEPT !.completed = TRUE, !.final_result = <<result>>],
          fs     |-> [f EXCEPT ![r.task.task_id].result = <<result>>],
          ret    |-> result ]

\* a fail() that leaves a result the agent has already written
fail_keep_result(r, f, reason, error) ==
    IF r.completed
    THEN [runner |-> r, fs |-> f, ret |-> r.final_result[1]]
    ELSE complete(r, f, "failure", reason, NoneVal, <<("failure_reason" :> reason)>>)

\* TaskRunner.fail (lines 221-226); an exception object is truthy
fail(r, f, reason, error) ==
    LET metadata == IF error # <<>>
                    THEN ("failure_reason" :> reason) @@ ("error" :> error[1])
                    ELSE ("failure_reason" :> reason)
    IN  complete(r, f, "failure", reason, NoneVal, <<metadata>>)

----------------------------------------------------------------------------
(* adapter/mind2web_adapter.py : Mind2WebBenchmark *)

\* result_path.exists() for <output_dir>/<task_id>/result.json
ResultExists(f, id) == f[id].result # <<>>

\* [x for x in xs if P(x)] over the positions of the task list
RECURSIVE Select(_, _, _, _)
Select(ts, f, p, wanted) ==
    IF p > Len(ts) THEN <<>>
    ELSE IF ResultExists(f, ts[p].task_id) = wanted
         THEN <<p>> \o Select(ts, f, p + 1, wanted)
         ELSE Select(ts, f, p + 1, wanted)

\* a resume that looks at the task directory instead of result.json
get_incomplete_tasks_by_dir(ts, f) ==
    LET RECURSIVE S(_)
        S(p) == IF p > Len(ts) THEN <<>>
                ELSE IF ~f[ts[p].task_id].dir THEN <<p>> \o S(p + 1) ELSE S(p + 1)
    IN  S(1)

\* Mind2WebBenchmark.get_incomplete_tasks (lines 307-314), as positions in tasks
get_incomplete_tasks(ts, f) == Select(ts, f, 1, FALSE)

\* a completion test that looks at the task directory instead of result.json
get_completed_tasks_by_dir(ts, f) ==
    LET RECURSIVE S(_)
        S(p) == IF p > Len(ts) THEN <<>>
                ELSE IF f[ts[p].task_id].dir THEN <<p>> \o S(p + 1) ELSE S(p + 1)
    IN  S(1)

\* Mind2WebBenchmark.get_completed_tasks (lines 316-323), as positions in tasks
get_completed_tasks(ts, f) == Select(ts, f, 1, TRUE)

\* the list slice xs[:n] of Python
SliceTo(xs, n) ==
    LET k == IF n >= 0 THEN (IF n < Len(xs) THEN n ELSE Len(xs))
             ELSE (IF Len(xs) + n > 0 THEN Len(xs) + n ELSE 0)
    IN  SubSeq(xs, 1, k)

\* run_all lines 342-345: the tasks to run; max_tasks is <<>> (None) or <<n>>
select_tasks(ts, f, resume, max_tasks) ==
    LET all == IF resume THEN get_incomplete_tasks(ts, f) ELSE [p \in 1..Len(ts) |-> p]
    IN  IF max_tasks # <<>> /\ max_tasks[1] # 0 THEN SliceTo(all, max_tasks[1]) ELSE all

\* str.lower() on the responses the model uses
Lower(s) ==
    CASE s = "Task success" -> "task success"
      [] s = "Task failure" -> "task failure"
      [] s = "Done"         -> "done"
      [] s = "No SUCCESS"   -> "no success"
      [] OTHER              -> s

\* "success" in s, for the lowered responses the model uses
ContainsSuccess(s) == s \in {"task success", "no success"}

\* run_all line 360: "success" in str(final_result.get("final_result_response", "")).lower()
counts_as_success(doc) ==
    ContainsSuccess(Lower(Get(doc, "final_result_response", "")))

NoHistory ==
    [ action_log  |-> <<>>,   \* the arguments of the add_action calls
      thought_log |-> <<>>,   \* the arguments of the add_thought calls
      shot_log    |-> <<>>,   \* the screenshot calls that returned, with the path returned
      lastop      |-> "none", \* the last call made on the recorder
      lastmeta    |-> <<>>,   \* the metadata argument of the last complete()
      last_ret    |-> <<>>,   \* the dictionary the last complete() returned
      invoked     |-> <<>>,   \* the positions agent_fn was invoked on, in order
      existed     |-> {},     \* the ids whose result.json existed when run_all was called
      outcomes    |-> <<>>,   \* how each invocation of agent_fn ended
      had_result  |-> FALSE,  \* whether result.json existed when the runner was created
      ncalls      |-> 0 ]     \* the number of recorder calls made on the current runner

\* no benchmark is loaded
NoBenchmark ==
    /\ tasks = <<>>
    /\ fs = [id \in TaskIds |-> NoDir]
    /\ runner = NoRunner
    /\ rpc = "idle"
    /\ args = [resume |-> TRUE, max_tasks |-> <<>>]
    /\ tasks_to_run = <<>>
    /\ idx = 0
    /\ results = [success |-> 0, failure |-> 0, error |-> 0]
    /\ hist = NoHistory

----------------------------------------------------------------------------
(* config.py : load_config *)

\* the paths load_config may look at: the explicit one and the two fixed ones
ConfigPaths == {"custom.json", "./tbench.json", "~/.todoforai/tbench.json"}

\* no configuration file exists
NoFiles == [p \in ConfigPaths |-> <<>>]

\* load_config lines 149-157: the explicit path, if truthy, then the fixed ones
search_paths(cp) ==
    (IF Truthy(cp) THEN <<cp>> ELSE <<>>)
        \o <<"./tbench.json", "~/.todoforai/tbench.json">>

\* a search that prefers the file found last
load_config_last(cp, fl, e) ==
    LET sp   == search_paths(cp)
        hits == {i \in 1..Len(sp) : fl[sp[i]] # <<>>}
    IN  IF hits = {} THEN TBenchConfig(EmptyDict, e)
        ELSE from_file(fl[sp[CHOOSE i \in hits : \A j \in hits : j <= i]][1], e)

\* load_config (lines 139-164): from_file on the first path that exists
load_config(cp, fl, e) ==
    LET sp   == search_paths(cp)
        hits == {i \in 1..Len(sp) : fl[sp[i]] # <<>>}
    IN  IF hits = {} THEN TBenchConfig(EmptyDict, e)
        ELSE from_file(fl[sp[CHOOSE i \in hits : \A j \in hits : i <= j]][1], e)

----------------------------------------------------------------------------
(* terminal-bench/todoforai_tbench/agent.py : TODOforAIAgent                *)
(* An agent object is a function from its attribute names; config is held   *)
(* by reference: "c" is the object the caller passed and the variable       *)
(* config holds, "loaded" the one load_config() made.                       *)

\* the names agent.py binds at module level (lines 9-21, 25, 125)
agent_module ==
    { "base64", "json", "Path", "Optional", "BaseAgent", "AgentResult", "TmuxSession",
      "TBenchConfig", "load_config", "EDGE_WHEEL_PATH", "DOCKER_RUNNER_SCRIPT",
      "TODOforAIAgent" }

\* from todoforai_tbench.agent import name
import_from_agent(name) == IF name \in agent_module THEN "ok" ELSE "ImportError"

\* an __init__ that ignores the model argument
TODOforAIAgent_config_model(cfgref, cfg, model, wheel) ==
    [ config              |-> cfgref,
      model               |-> cfg.default_model,
      total_input_tokens  |-> 0,
      total_output_tokens |-> 0,
      log_dir             |-> NoneVal,
      wheel_b64           |-> wheel,
      wheel_name          |-> IF wheel # <<>> THEN "todoforai_edge_cli.whl" ELSE NoneVal ]

\* TODOforAIAgent.__init__ (lines 136-154); wheel is <<>> when EDGE_WHEEL_PATH
\* does not exist, else <<n>>, n the number of characters of its base64 text
TODOforAIAgent(cfgref, cfg, model, wheel) ==
    [ config              |-> cfgref,
      model               |-> PyOr(model, cfg.default_model),
      total_input_tokens  |-> 0,
      total_output_tokens |-> 0,
      log_dir             |-> NoneVal,
      wheel_b64           |-> wheel,
      wheel_name          |-> IF wheel # <<>> THEN "todoforai_edge_cli.whl" ELSE NoneVal ]

NoAgent == EmptyDict

\* reading obj.name: whether the attribute is there
getattr(obj, name) == IF name \in DOMAIN obj THEN "ok" ELSE "AttributeError"

\* one session.send_keys([keys + arg, "Enter"], block=True, max_timeout_sec=t);
\* chunk is <<>>, or <<c>> when the command carries the piece c of the wheel
Keys(keys, arg, t) ==
    [keys |-> keys, arg |-> arg, chunk |-> <<>>, block |-> TRUE, max_timeout_sec |-> t]

\* _check_edge_installed lines 206-208: (capture_pane() or "").count(marker) >= 2;
\* the pane is <<>> (None) or <<n>>, n the number of occurrences of the marker
check_edge_installed(pane) == pane # <<>> /\ pane[1] >= 2

\* `if self._wheel_b64:`, false for None and for the empty string
HasWheel(a) == a.wheel_b64 # <<>> /\ a.wheel_b64[1] > 0

\* _install_edge line 233
chunk_size == 4000

\* text[i:j] of a text of n characters, as the positions [from, to) it covers
Slice(n, i, j) ==
    [from |-> IF i < n THEN i ELSE n, to |-> IF j < n THEN j ELSE n]

\* a chunking that leaves out the last, shorter piece
chunks_whole_only(n) ==
    [k \in 1..(n \div chunk_size) |-> Slice(n, (k - 1) * chunk_size, k * chunk_size)]

\* _install_edge line 234: [b64[i:i+chunk_size] for i in range(0, len(b64), chunk_size)]
chunks(n) ==
    [k \in 1..((n + chunk_size - 1) \div chunk_size) |->
        Slice(n, (k - 1) * chunk_size, (k - 1) * chunk_size + chunk_size)]

\* line 237: echo '{chunk}' >> /tmp/edge.whl.b64
EchoChunk(c) == [Keys("echo >> /tmp/edge.whl.b64", "", 5) EXCEPT !.chunk = <<c>>]

\* _install_edge lines 214-242: the commands sent after the check, in order
install_commands(a, already_installed) ==
    (IF ~already_installed
     THEN << Keys("apt-get update -qq && apt-get install", "", 180),
             Keys("python3 -m venv /opt/todoforai-venv", "", 180),
             Keys("/opt/todoforai-venv/bin/pip install -q --upgrade pip", "", 180) >>
     ELSE <<>>)
    \o
    (IF HasWheel(a)
     THEN << Keys("> /tmp/edge.whl.b64", "", 5) >>
          \o [i \in 1..Len(chunks(a.wheel_b64[1])) |-> EchoChunk(chunks(a.wheel_b64[1])[i])]
          \o << Keys("base64 -d /tmp/edge.whl.b64 >", a.wheel_name, 5),
                Keys("/opt/todoforai-venv/bin/pip install -q --force-reinstall", a.wheel_name, 60) >>
     ELSE IF ~already_installed
          THEN << Keys("/opt/todoforai-venv/bin/pip install -q todoforai-edge-cli", "", 180) >>
          ELSE <<>>)

\* api_url.replace("localhost", "$DOCKER_HOST_IP") on the URLs the model uses
ReplaceLocalhost(url) ==
    CASE url = "http://localhost:4000" -> "http://$DOCKER_HOST_IP:4000"
      [] OTHER                         -> url

\* "$" in val, for the values the model uses
HasDollar(val) == val = "http://$DOCKER_HOST_IP:4000"

\* str(n) for the timeouts the model uses
Str(n) ==
    CASE n = 600 -> "600"
      [] n = 300 -> "300"
      [] OTHER   -> "60"

\* instruction.replace("'", "'\\''") on the instructions the model uses
Escape(instruction) ==
    CASE instruction = "echo 'test'" -> "echo '\\''test'\\''"
      [] OTHER                      -> instruction

\* lines 278-283: export key="val" when val holds a "$", else export key='val'
Export(key, val) ==
    Keys("export " \o key \o "=" \o (IF HasDollar(val) THEN "\"" ELSE "'"), val, 5)

\* _run_task lines 249-263: the two commands sent before the environment is built
run_prologue ==
    << Keys("echo | base64 -d > /tmp/tbench_runner.py", "", 10),
       Keys("export DOCKER_HOST_IP=$(python3 -c ...)", "", 5) >>

RunnerCommand == "/opt/todoforai-venv/bin/python /tmp/tbench_runner.py"

\* _run_task lines 265-294: the exports, the runner and the cat, in order;
\* key is what next_api_key() returned at line 271
run_commands(cfg, key, instruction) ==
    << Export("TODOFORAI_API_URL", ReplaceLocalhost(cfg.api_url)),
       Export("TODOFORAI_API_KEY", key),
       Export("TODOFORAI_AGENT", cfg.default_agent),
       Export("TODOFORAI_TIMEOUT", Str(cfg.timeout)) >>
    \o (IF Truthy(cfg.project_id)
        THEN << Export("TODOFORAI_PROJECT_ID", cfg.project_id) >> ELSE <<>>)
    \o << Keys(RunnerCommand, Escape(instruction), cfg.timeout + 60),
          Keys("cat /tmp/tbench_result.json", "", 10) >>

\* a line of the pane, by what _parse_output looks at: whether the stripped
\* line starts with "{", holds "input_tokens", holds "TBENCH_RESULT:", and
\* what json.loads makes of the JSON text: "invalid", "list", or a dict
Line(brace, tokens, marker, json) ==
    [starts_brace |-> brace, has_input_tokens |-> tokens, has_marker |-> marker, json |-> json]

\* _parse_output (lines 298-318) on the lines of the pane from position i:
\* the token counts set, <<>> when none is, "AttributeError" when
\* result.get is called on a list
RECURSIVE parse_output(_, _)
parse_output(lines, i) ==
    IF i > Len(lines) THEN [raised |-> <<>>, tokens |-> <<>>]
    ELSE LET l == lines[i]
             use(j) == IF j.kind = "list"
                       THEN [raised |-> <<"AttributeError">>, tokens |-> <<>>]
                       ELSE [raised |-> <<>>,
                             tokens |-> << [input  |-> Get(j.d, "input_tokens", 0),
                                            output |-> Get(j.d, "output_tokens", 0)] >>]
         IN  IF l.starts_brace /\ l.has_input_tokens
             THEN IF l.json.kind = "invalid" THEN parse_output(lines, i + 1)
                  ELSE use(l.json)
             ELSE IF l.has_marker
                  THEN IF l.json.kind = "invalid" THEN parse_output(lines, i + 1)
                       ELSE use(l.json)
                  ELSE parse_output(lines, i + 1)

\* an except chain in which `except Exception` comes first
failure_mode_unordered(raised) ==
    IF raised = <<>> THEN "none" ELSE "unknown_agent_error"

\* TimeoutError and the classes derived from it, among those the model raises
IsTimeoutError(e) == e = "TimeoutError"

\* perform_task lines 171-188: the failure mode by how the try block ended
failure_mode(raised) ==
    IF raised = <<>> THEN "none"
    ELSE IF IsTimeoutError(raised[1]) THEN "agent_timeout"
         ELSE "unknown_agent_error"

\* a perform_task that only notes the logging directory
reset_counters_kept(a, logging_dir) == [a EXCEPT !.log_dir = logging_dir]

\* perform_task lines 167-169
reset_counters(a, logging_dir) ==
    [a EXCEPT !.log_dir = logging_dir, !.total_input_tokens = 0, !.total_output_tokens = 0]

\* AgentResult(...) (lines 193-197)
AgentResult(a, fm) ==
    [ input_tokens  |-> a.total_input_tokens,
      output_tokens |-> a.total_output_tokens,
      failure_mode  |-> fm ]

\* the frame of perform_task before the call
IdleFrame ==
    [ pc                |-> "idle",
      instruction       |-> NoneVal,
      already_installed |-> FALSE,
      todo              |-> <<>>,     \* the commands of the current function still to send
      failure_mode      |-> NoneVal,
      result            |-> <<>> ]    \* <<AgentResult>> once perform_task has returned

\* a session nothing was sent to, a container nothing ran in, no wheel file
\* and no summary.json
NoSession ==
    [ sent     |-> <<>>,   \* the send_keys calls, in order
      asked    |-> <<>>,   \* the shell commands the backend asked the edge to run
      executed |-> <<>>,   \* the shell commands the edge ran inside the container
      wheel    |-> <<>>,   \* EDGE_WHEEL_PATH: <<>>, or <<n>> for a base64 text of n characters
      summary  |-> <<>> ]  \* <log_dir>/summary.json, once written

NoAgentHistory ==
    [ calls      |-> 0,      \* the number of perform_task calls made
      earlier    |-> <<>>,   \* the AgentResults of the calls before the current one
      ctor       |-> <<>>,   \* the arguments of the constructor call
      given      |-> <<>>,   \* the default_model of the config passed, at the call
      raised     |-> <<>>,   \* the exception that ended the try block of perform_task
      pane       |-> <<>> ]  \* <<pane>>, the pane _parse_output read

NoProbe == [kind |-> "none", name |-> NoneVal, outcome |-> NoneVal]

----------------------------------------------------------------------------
(* terminal-bench/todoforai_tbench/direct_agent.py : TODOforAIDirectAgent   *)
(* A response of the LLM is held by what perform_task looks at: whether it  *)
(* contains each marker, and its lines, none of them blank, in which        *)
(* _extract_command looks for a command; three apostrophes stand for the    *)
(* three backquotes of a fence, which a TLA+ string cannot hold.             *)

\* _extract_command (lines 287-301): re.findall of ```(?:bash|sh)?\s*\n(.*?)\n```
\* with DOTALL. A match starts at a line that is ```, ```bash or ```sh and
\* needs a later "\n'''" after at least one line of content, so it ends at the
\* first line starting with ``` two or more lines further; the command is the
\* stripped first line of the first match, <<>> (None) without a match
extract_command(lines) ==
    LET fence(i) == lines[i] \in {"'''", "'''bash", "'''sh", "'''python"}
        starts   == {i \in DOMAIN lines :
                        /\ lines[i] \in {"'''", "'''bash", "'''sh"}
                        /\ \E k \in DOMAIN lines : k >= i + 2 /\ fence(k)}
    IN  IF starts = {} THEN <<>>
        ELSE LET first == CHOOSE i \in starts : \A j \in starts : i <= j
             IN  << Strip(lines[first + 1]) >>

Response(c, f, lines) ==
    [complete |-> c, failed |-> f, lines |-> lines, command |-> extract_command(lines)]

\* DirectAgentState() (lines 86-93) and the locals of perform_task
DirectAgentState ==
    [ pc                |-> "idle",
      provider          |-> "anthropic",
      logging_dir       |-> NoneVal,
      messages          |-> <<>>,     \* the roles of the conversation, in order
      commands_executed |-> <<>>,
      input_tokens      |-> 0,
      output_tokens     |-> 0,
      iterations        |-> 0,
      failure_mode      |-> NoneVal,
      command           |-> <<>>,     \* the command extracted from the last response
      responses         |-> <<>>,     \* history: the responses received, in order
      calls             |-> 0,        \* history: the LLM calls made
      raised            |-> <<>>,     \* history: the exception the try block caught
      saved             |-> FALSE,    \* the three log files were written
      result            |-> <<>> ]    \* <<AgentResult>> once perform_task has returned

NoDirect == DirectAgentState

\* a loop that goes on after 'TASK_FAILED:'
after_response_ignoring_failed(d, r) ==
    IF r.complete THEN [d EXCEPT !.pc = "finish"]
    ELSE IF r.command # <<>> THEN [d EXCEPT !.pc = "exec", !.command = r.command]
         ELSE [d EXCEPT !.pc = "loop", !.messages = Append(@, "user")]

\* perform_task lines 155-179 up to the execution of the command: the markers
\* are tested first, then the command is extracted
after_response(d, r) ==
    IF r.complete THEN [d EXCEPT !.pc = "finish"]
    ELSE IF r.failed
         THEN [d EXCEPT !.pc = "finish", !.failure_mode = "agent_declared_failure"]
         ELSE IF r.command # <<>>
              THEN [d EXCEPT !.pc = "exec", !.command = r.command]
              ELSE [d EXCEPT !.pc = "loop", !.messages = Append(@, "user")]

\* perform_task lines 185-187: failure_mode = f"error: {str(e)}"
error_mode(e) == "error: " \o e

----------------------------------------------------------------------------
(* adapter/mind2web_adapter.py : Mind2WebBenchmark._load_tasks, get_task    *)

\* k.endswith('_human_label') on the keys the model uses
EndsWithHumanLabel(k) == k \in {"webjudge_human_label", "agent_human_label", "_human_label"}

\* a comprehension that keeps every key mentioning human_label
human_labels_containing(item) ==
    [k \in {x \in DOMAIN item : EndsWithHumanLabel(x) \/ x = "human_label_note"} |-> item[k]]

\* _load_tasks lines 284-287: the entries whose key ends with '_human_label'
human_labels(item) == [k \in {x \in DOMAIN item : EndsWithHumanLabel(x)} |-> item[k]]

\* _load_tasks lines 289-293
LoadedTask(item) ==
    [ task_id      |-> item["task_id"],
      description  |-> item["confirmed_task"],
      human_labels |-> human_labels(item) ]

\* _load_tasks (lines 269-296) on the parsed content of human_label.json
load_tasks(items) == [i \in 1..Len(items) |-> LoadedTask(items[i])]

\* {t.task_id: t for t in self.tasks} (line 265): a later task replaces an earlier one
by_id(ts) ==
    [id \in {ts[i].task_id : i \in 1..Len(ts)} |->
        ts[CHOOSE i \in 1..Len(ts) :
              /\ ts[i].task_id = id
              /\ \A j \in 1..Len(ts) : ts[j].task_id = id => j <= i]]

\* get_task (lines 303-305): <<task>>, or <<>> for None
get_task(byid, id) == IF id \in DOMAIN byid THEN <<byid[id]>> ELSE <<>>

NoGot == [loaded |-> FALSE, id |-> NoneVal, ret |-> <<>>]

----------------------------------------------------------------------------
\* no agent is in use
NoBridge ==
    /\ agent = NoAgent
    /\ pt = IdleFrame
    /\ session = NoSession
    /\ ahist = NoAgentHistory
    /\ probe = NoProbe
    /\ direct = NoDirect

\* neither load_config nor the task loader is in use
NoLoad ==
    /\ files = NoFiles
    /\ config_path = NoneVal
    /\ labels = <<>>
    /\ tasks_by_id = EmptyDict
    /\ got = NoGot

----------------------------------------------------------------------------
(* Inputs of the configuration loader *)

\* an optional dictionary entry: absent, or k with one of the values vs
Opt(k, vs) == {EmptyDict} \cup {k :> v : v \in vs}

\* the values a TODOFORAI_* / TODO4AI_* string variable takes: unset, empty, set
EnvVals(v) == {NoneVal, "", v}

\* TODOFORAI_API_KEYS as its comma-separated segments: unset or "", " , ", "k1 , k2"
EnvKeysVals == { <<"">>, <<" ", " ">>, <<"k1 ", " k2">> }

Envs ==
    { [ TODOFORAI_API_URL    |-> a1, TODO4AI_API_URL    |-> a2,
        TODOFORAI_API_KEY    |-> b1, TODO4AI_API_KEY    |-> b2,
        TODOFORAI_PROJECT_ID |-> c1, TODO4AI_PROJECT_ID |-> c2,
        TODOFORAI_AGENT      |-> g,  TODOFORAI_API_KEYS |-> ks ] :
        a1 \in EnvVals("https://env.example.com"), a2 \in {NoneVal, "https://old.example.com"},
        b1 \in EnvVals("env-key"), b2 \in {NoneVal, "old-key"},
        c1 \in EnvVals("env-proj"), c2 \in EnvVals("old-proj"),
        g \in EnvVals("EnvAgent"), ks \in EnvKeysVals }

\* no TODOFORAI_* / TODO4AI_* variable is set
NoEnv ==
    [ TODOFORAI_API_URL    |-> NoneVal, TODO4AI_API_URL    |-> NoneVal,
      TODOFORAI_API_KEY    |-> NoneVal, TODO4AI_API_KEY    |-> NoneVal,
      TODOFORAI_PROJECT_ID |-> NoneVal, TODO4AI_PROJECT_ID |-> NoneVal,
      TODOFORAI_AGENT      |-> NoneVal, TODOFORAI_API_KEYS |-> <<"">> ]

\* the dictionaries tried together with the environment
FileDicts ==
    { f1 @@ f2 @@ f3 @@ f4 @@ f5 :
        f1 \in Opt("api_url", {"https://api.example.com"}),
        f2 \in Opt("api_key", {"test-key"}),
        f3 \in Opt("api_keys", {<<"p1", "p2">>}),
        f4 \in Opt("project_id", {"file-proj"}),
        f5 \in Opt("default_agent", {"FileAgent"}) }

\* the dictionaries tried without environment
PlainDicts ==
    { f1 @@ f2 @@ f3 @@ f4 @@ f5 @@ f6 @@ f7 @@ f8 :
        f1 \in Opt("api_url", {"", "https://api.example.com"}),
        f2 \in Opt("api_key", {"", "test-key"}),
        f3 \in Opt("api_keys", {<<>>, <<"p1">>, <<"p1", "p2">>}),
        f4 \in Opt("project_id", {NoneVal, "file-proj"}),
        f5 \in Opt("default_agent", {"", "FileAgent"}),
        f6 \in Opt("default_model", {"gpt-5"}),
        f7 \in Opt("timeout", {300}),
        f8 \in Opt("custom", {"x"}) }

Constructors == {"direct", "from_dict", "from_file"}

----------------------------------------------------------------------------
(* The configuration loader as a state machine *)

\* no thread uses the configuration
NoThreads ==
    /\ threads = {}
    /\ th = EmptyDict
    /\ returned = <<>>
    /\ ncalls = 0

InitEnv ==
    /\ env \in Envs
    /\ data \in FileDicts
    /\ how \in Constructors
    /\ config = Defaults
    /\ built = FALSE
    /\ dumped = EmptyDict
    /\ NoThreads
    /\ NoBenchmark
    /\ NoBridge
    /\ NoLoad

InitDict ==
    /\ env = NoEnv
    /\ data \in PlainDicts
    /\ how \in Constructors
    /\ (how = "direct" => DOMAIN data \subseteq known_fields)
    /\ config = Defaults
    /\ built = FALSE
    /\ dumped = EmptyDict
    /\ NoThreads
    /\ NoBenchmark
    /\ NoBridge
    /\ NoLoad

\* config = TBenchConfig(**data)
ConstructDirect ==
    /\ ~built /\ how = "direct"
    /\ config' = TBenchConfig(data, env)
    /\ built' = TRUE
    /\ UNCHANGED <<env, data, how, dumped>>
    /\ UNCHANGED <<poolvars, benchvars, bridgevars, loadvars>>

\* config = TBenchConfig.from_dict(data)
ConstructFromDict ==
    /\ ~built /\ how = "from_dict"
    /\ config' = from_dict(data, env)
    /\ built' = TRUE
    /\ UNCHANGED <<env, data, how, dumped>>
    /\ UNCHANGED <<poolvars, benchvars, bridgevars, loadvars>>

\* config = TBenchConfig.from_file(path), the file holding data
ConstructFromFile ==
    /\ ~built /\ how = "from_file"
    /\ config' = from_file(data, env)
    /\ built' = TRUE
    /\ UNCHANGED <<env, data, how, dumped>>
    /\ UNCHANGED <<poolvars, benchvars, bridgevars, loadvars>>

\* config.to_dict()
ToDict ==
    /\ built
    /\ dumped' = to_dict(config)
    /\ UNCHANGED <<env, data, how, config, built>>
    /\ UNCHANGED <<poolvars, benchvars, bridgevars, loadvars>>

NextConfig == ConstructDirect \/ ConstructFromDict \/ ConstructFromFile \/ ToDict

SpecConfig == InitEnv /\ [][NextConfig]_vars

SpecDict == InitDict /\ [][NextConfig]_vars

----------------------------------------------------------------------------
(* config.py : TBenchConfig.next_api_key (lines 83-90), called by             *)
(* agent.py : TODOforAIAgent._run_task (line 271) of each running task        *)

NThreads == 2
MaxPool == 3
MaxCalls == 4

\* the pool <<"k1", ..., "kn">>
Pool(n) == [i \in 1..n |-> "k" \o ToString(i)]

\* the dictionaries the shared configuration is built from
PoolDicts ==
    { f1 @@ f2 :
        f1 \in Opt("api_key", {"", "solo"}),
        f2 \in Opt("api_keys", {Pool(n) : n \in 0..MaxPool}) }

\* a fresh thread, outside _run_task
IdleThread == [pc |-> "idle", key |-> NoneVal, tmp |-> 0, ticket |-> -1, held |-> NoneVal]

\* a lock that excludes nobody
LockNotExclusive(c, t) == TRUE

\* a blocking queue of keys: a caller also waits until some key of the pool is
\* held by no running task
LockFreeAndKeyFree(c, t) ==
    /\ c.key_lock = 0
    /\ \E i \in 1..Len(c.api_keys) :
          \A u \in threads : ~(th[u].pc = "running" /\ th[u].held = c.api_keys[i])

\* line 87: `with self._key_lock` is entered by thread t only while no thread
\* holds the lock
LockFree(c, t) == c.key_lock = 0

\* a rotation that forgets the modulo and sticks to the last key
KeyAtNoModulo(keys, counter) ==
    IF counter + 1 <= Len(keys) THEN keys[counter + 1] ELSE keys[Len(keys)]

\* line 88: self.api_keys[self._key_counter % len(self.api_keys)]
KeyAt(keys, counter) == keys[(counter % Len(keys)) + 1]

InitPool(ts) ==
    /\ env = NoEnv
    /\ data \in PoolDicts
    /\ how = "from_dict"
    /\ config = from_dict(data, env)
    /\ built = TRUE
    /\ dumped = EmptyDict
    /\ threads = ts
    /\ th = [t \in ts |-> IdleThread]
    /\ returned = <<>>
    /\ ncalls = 0
    /\ NoBenchmark
    /\ NoBridge
    /\ NoLoad

\* _run_task reaches line 271 and calls self.config.next_api_key()
Call(t) ==
    /\ th[t].pc = "idle"
    /\ ncalls < MaxCalls
    /\ ncalls' = ncalls + 1
    /\ th' = [th EXCEPT ![t].pc = "L85"]
    /\ UNCHANGED <<cfgvars, threads, returned, benchvars, bridgevars, loadvars>>

\* lines 85-86: `if not self.api_keys: return self.api_key`
CheckPool(t) ==
    /\ th[t].pc = "L85"
    /\ IF config.api_keys = <<>>
       THEN /\ th' = [th EXCEPT ![t].pc = "running", ![t].held = config.api_key,
                                ![t].ticket = -1]
            /\ returned' = Append(returned, [thread |-> t, key |-> config.api_key, ticket |-> -1])
       ELSE /\ th' = [th EXCEPT ![t].pc = "L87"]
            /\ UNCHANGED returned
    /\ UNCHANGED <<cfgvars, threads, ncalls, benchvars, bridgevars, loadvars>>

\* line 87: `with self._key_lock:` acquires the lock, blocking while it is held
Acquire(t) ==
    /\ th[t].pc = "L87"
    /\ LockFree(config, t)
    /\ config' = [config EXCEPT !.key_lock = t]
    /\ th' = [th EXCEPT ![t].pc = "L88"]
    /\ UNCHANGED <<env, data, how, built, dumped, threads, returned, ncalls, benchvars, bridgevars, loadvars>>

\* line 88: key = self.api_keys[self._key_counter % len(self.api_keys)]
ReadKey(t) ==
    /\ th[t].pc = "L88"
    /\ th' = [th EXCEPT ![t].pc = "L89", ![t].key = KeyAt(config.api_keys, config.key_counter),
                        ![t].ticket = config.key_counter]
    /\ UNCHANGED <<cfgvars, threads, returned, ncalls, benchvars, bridgevars, loadvars>>

\* line 89, first half: load self._key_counter
LoadCounter(t) ==
    /\ th[t].pc = "L89"
    /\ th' = [th EXCEPT ![t].pc = "L89store", ![t].tmp = config.key_counter]
    /\ UNCHANGED <<cfgvars, threads, returned, ncalls, benchvars, bridgevars, loadvars>>

\* line 89, second half: store self._key_counter = loaded + 1
StoreCounter(t) ==
    /\ th[t].pc = "L89store"
    /\ config' = [config EXCEPT !.key_counter = th[t].tmp + 1]
    /\ th' = [th EXCEPT ![t].pc = "L90"]
    /\ UNCHANGED <<env, data, how, built, dumped, threads, returned, ncalls, benchvars, bridgevars, loadvars>>

\* line 90: `return key` leaves the with block, releasing the lock; the task
\* then runs with the key exported as TODOFORAI_API_KEY (agent.py lines 269-291)
ReturnKey(t) ==
    /\ th[t].pc = "L90"
    /\ config' = [config EXCEPT !.key_lock = 0]
    /\ th' = [th EXCEPT ![t].pc = "running", ![t].held = th[t].key]
    /\ returned' = Append(returned, [thread |-> t, key |-> th[t].key, ticket |-> th[t].ticket])
    /\ UNCHANGED <<env, data, how, built, dumped, threads, ncalls, benchvars, bridgevars, loadvars>>

\* the task of thread t ends; the thread is free to run another task
FinishTask(t) ==
    /\ th[t].pc = "running"
    /\ th' = [th EXCEPT ![t] = IdleThread]
    /\ UNCHANGED <<cfgvars, threads, returned, ncalls, benchvars, bridgevars, loadvars>>

NextPool ==
    \/ \E t \in threads : Call(t)
    \/ \E t \in threads : CheckPool(t)
    \/ \E t \in threads : Acquire(t)
    \/ \E t \in threads : ReadKey(t)
    \/ \E t \in threads : LoadCounter(t)
    \/ \E t \in threads : StoreCounter(t)
    \/ \E t \in threads : ReturnKey(t)
    \/ \E t \in threads : FinishTask(t)

\* one thread: the calls of next_api_key follow one another
SpecRotate == InitPool({1}) /\ [][NextPool]_vars

\* NThreads threads share the configuration object
SpecPool == InitPool(1..NThreads) /\ [][NextPool]_vars

----------------------------------------------------------------------------
(* adapter/mind2web_adapter.py as a state machine: the recorder driven by    *)
(* hand (example_usage.py, run_single_task) or by run_all through agent_fn    *)

MaxTasks == 2
MaxAgentCalls == 2
MaxRecorderCalls == 3

RECURSIVE SeqsUpTo(_, _)
SeqsUpTo(S, n) ==
    IF n = 0 THEN {<<>>}
    ELSE LET shorter == SeqsUpTo(S, n - 1)
         IN  shorter \cup {Append(q, x) : q \in {r \in shorter : Len(r) = n - 1}, x \in S}

\* the task files: up to MaxTasks items, an id possibly given twice
TaskLists == {[p \in 1..Len(q) |-> Task(q[p])] : q \in SeqsUpTo(TaskIds, MaxTasks)}

\* the result.json an earlier run left for task id
OldDoc(id) == complete_doc(TaskRunner(Task(id)), "success", NoneVal, NoneVal, <<>>)

\* what an earlier run may have left of a task directory: nothing, the
\* directories alone (the run was interrupted), or a result.json too
OldDirs(id) ==
    { NoDir,
      [NoDir EXCEPT !.dir = TRUE, !.trajectory = TRUE],
      [NoDir EXCEPT !.dir = TRUE, !.trajectory = TRUE, !.result = <<OldDoc(id)>>] }

OutputDirs == {f \in [TaskIds -> UNION {OldDirs(id) : id \in TaskIds}] :
                  \A id \in TaskIds : f[id] \in OldDirs(id)}

\* the images handed to screenshot(): a path that exists, a long base64 string,
\* a short string (short base64 text, or a path that does not exist), a Path
\* that does not exist, bytes, a PIL image, and an object of another type
Images ==
    { [type |-> "str",   exists |-> TRUE,  long |-> FALSE],
      [type |-> "str",   exists |-> FALSE, long |-> TRUE],
      [type |-> "str",   exists |-> FALSE, long |-> FALSE],
      [type |-> "Path",  exists |-> FALSE, long |-> FALSE],
      [type |-> "bytes", exists |-> FALSE, long |-> FALSE],
      [type |-> "PIL",   exists |-> FALSE, long |-> FALSE],
      [type |-> "int",   exists |-> FALSE, long |-> FALSE] }

Suffixes == {"full_screenshot", "crop"}

\* the arguments handed to add_action(): Action objects, dicts, a string
ActionInputs ==
    { [kind |-> "Action", obj |-> [action_type |-> "click", selector |-> "#go",
                                   value |-> NoneVal, description |-> NoneVal]],
      [kind |-> "Action", obj |-> [action_type |-> "type", selector |-> "#q",
                                   value |-> "cats", description |-> NoneVal]],
      [kind |-> "Action", obj |-> [action_type |-> "type", selector |-> "#q",
                                   value |-> "", description |-> NoneVal]],
      [kind |-> "dict", d |-> [type |-> "type", selector |-> "#q", value |-> "dogs"]],
      [kind |-> "dict", d |-> [action_type |-> "scroll", element |-> "page"]],
      [kind |-> "dict", d |-> EmptyDict],
      [kind |-> "str", text |-> "<button id=submit> -> CLICK"] }

Thoughts == {"look", "decide"}

\* the arguments handed to complete() by hand
CompleteArgs ==
    { [status |-> "success", final_response |-> NoneVal, url |-> NoneVal, metadata |-> <<>>],
      [status |-> "success", final_response |-> "Done", url |-> "https://example.com/result",
       metadata |-> <<EmptyDict>>],
      [status |-> "failure", final_response |-> NoneVal, url |-> NoneVal,
       metadata |-> <<("steps" :> 3)>>],
      [status |-> "success", final_response |-> NoneVal, url |-> NoneVal,
       metadata |-> <<("action_history" :> <<"forged">>)>>],
      [status |-> "failure", final_response |-> "No SUCCESS", url |-> NoneVal,
       metadata |-> <<("thoughts" :> <<>>)>>] }

\* the arguments an agent function hands to complete() under run_all
AgentCompleteArgs ==
    { [status |-> st, final_response |-> fr, url |-> NoneVal, metadata |-> <<>>] :
        st \in {"success", "failure"}, fr \in {NoneVal, "Done", "No SUCCESS"} }

\* the exceptions an agent function raises, as their str()
Exceptions == {"boom", "no success"}

\* the configuration loader is not in use
NoConfig ==
    /\ env = NoEnv
    /\ data = EmptyDict
    /\ how = "direct"
    /\ config = Defaults
    /\ built = FALSE
    /\ dumped = EmptyDict

\* Mind2WebBenchmark.__init__ (lines 236-267) on a task file and an output directory
InitBench ==
    /\ NoConfig
    /\ NoThreads
    /\ tasks \in TaskLists
    /\ fs \in OutputDirs
    /\ runner = NoRunner
    /\ rpc = "idle"
    /\ args = [resume |-> TRUE, max_tasks |-> <<>>]
    /\ tasks_to_run = <<>>
    /\ idx = 0
    /\ results = [success |-> 0, failure |-> 0, error |-> 0]
    /\ hist = NoHistory
    /\ NoBridge
    /\ NoLoad

\* the recorder used by hand on fresh directories
InitRunner ==
    /\ NoConfig
    /\ NoThreads
    /\ tasks = <<Task("t1"), Task("t2")>>
    /\ fs = [id \in TaskIds |-> NoDir]
    /\ runner = NoRunner
    /\ rpc = "idle"
    /\ args = [resume |-> TRUE, max_tasks |-> <<>>]
    /\ tasks_to_run = <<>>
    /\ idx = 0
    /\ results = [success |-> 0, failure |-> 0, error |-> 0]
    /\ hist = NoHistory
    /\ NoBridge
    /\ NoLoad

\* the recorder calls a caller may still make on the current runner
MayCall ==
    \/ rpc = "manual" /\ hist.ncalls < MaxRecorderCalls
    \/ rpc = "agent" /\ hist.ncalls < MaxAgentCalls

\* the history of a fresh runner
FreshRunner(h, had) ==
    [h EXCEPT !.action_log = <<>>, !.thought_log = <<>>, !.shot_log = <<>>,
              !.lastop = "init", !.lastmeta = <<>>, !.last_ret = <<>>,
              !.had_result = had, !.ncalls = 0]

\* runner = benchmark.create_runner(task) (lines 298-301, 89-104)
CreateRunner(p) ==
    /\ rpc = "idle"
    /\ runner' = TaskRunner(tasks[p])
    /\ fs' = MakeDirs(fs, tasks[p].task_id)
    /\ rpc' = "manual"
    /\ hist' = FreshRunner(hist, ResultExists(fs, tasks[p].task_id))
    /\ UNCHANGED <<cfgvars, poolvars, bridgevars, loadvars, tasks, args, tasks_to_run, idx, results>>

\* runner.screenshot(image, suffix) (lines 106-137)
Screenshot(image, suffix) ==
    /\ MayCall
    /\ LET r == screenshot(runner, fs, image, suffix)
       IN  /\ runner' = r.runner
           /\ fs' = r.fs
           /\ hist' = [hist EXCEPT
                         !.shot_log = IF r.raised THEN @
                                      ELSE Append(@, [image |-> image, suffix |-> suffix,
                                                      ret |-> r.ret]),
                         !.lastop = "screenshot", !.ncalls = @ + 1]
    /\ UNCHANGED <<cfgvars, poolvars, bridgevars, loadvars, tasks, rpc, args, tasks_to_run, idx, results>>

\* runner.add_action(action) (lines 139-162)
AddAction(action) ==
    /\ MayCall
    /\ runner' = [runner EXCEPT !.actions = Append(@, add_action(action))]
    /\ hist' = [hist EXCEPT !.action_log = Append(@, action),
                            !.lastop = "add_action", !.ncalls = @ + 1]
    /\ UNCHANGED <<cfgvars, poolvars, bridgevars, loadvars, tasks, fs, rpc, args, tasks_to_run, idx, results>>

\* runner.add_thought(thought) (lines 164-166)
AddThought(thought) ==
    /\ MayCall
    /\ runner' = [runner EXCEPT !.thoughts = Append(@, thought)]
    /\ hist' = [hist EXCEPT !.thought_log = Append(@, thought),
                            !.lastop = "add_thought", !.ncalls = @ + 1]
    /\ UNCHANGED <<cfgvars, poolvars, bridgevars, loadvars, tasks, fs, rpc, args, tasks_to_run, idx, results>>

\* runner.complete(status, final_response, url, metadata) (lines 168-219)
Complete(a) ==
    /\ MayCall
    /\ LET r == complete(runner, fs, a.status, a.final_response, a.url, a.metadata)
       IN  /\ runner' = r.runner
           /\ fs' = r.fs
           /\ hist' = [hist EXCEPT !.lastop = "complete", !.lastmeta = a.metadata,
                                   !.last_ret = <<r.ret>>, !.ncalls = @ + 1]
    /\ UNCHANGED <<cfgvars, poolvars, bridgevars, loadvars, tasks, rpc, args, tasks_to_run, idx, results>>

\* runner.fail(reason) by hand (lines 221-226)
Fail(reason) ==
    /\ MayCall
    /\ rpc = "manual"
    /\ LET r == fail(runner, fs, reason, <<>>)
       IN  /\ runner' = r.runner
           /\ fs' = r.fs
           /\ hist' = [hist EXCEPT !.lastop = "fail",
                                   !.lastmeta = <<("failure_reason" :> reason)>>,
                                   !.last_ret = <<r.ret>>, !.ncalls = @ + 1]
    /\ UNCHANGED <<cfgvars, poolvars, bridgevars, loadvars, tasks, rpc, args, tasks_to_run, idx, results>>

\* benchmark.run_all(agent_fn, resume, max_tasks), lines 342-349
RunAll(resume, max_tasks) ==
    /\ rpc = "idle"
    /\ args' = [resume |-> resume, max_tasks |-> max_tasks]
    /\ tasks_to_run' = select_tasks(tasks, fs, resume, max_tasks)
    /\ results' = [success |-> 0, failure |-> 0, error |-> 0]
    /\ idx' = 0
    /\ rpc' = "loop"
    /\ hist' = [hist EXCEPT !.existed = {id \in TaskIds : ResultExists(fs, id)},
                            !.invoked = <<>>, !.outcomes = <<>>]
    /\ UNCHANGED <<cfgvars, poolvars, bridgevars, loadvars, tasks, fs, runner>>

\* lines 351-357: the next task of the loop, its runner, the call of agent_fn
StartTask ==
    /\ rpc = "loop"
    /\ idx < Len(tasks_to_run)
    /\ LET p == tasks_to_run[idx + 1]
       IN  /\ runner' = TaskRunner(tasks[p])
           /\ fs' = MakeDirs(fs, tasks[p].task_id)
           /\ hist' = [FreshRunner(hist, ResultExists(fs, tasks[p].task_id))
                          EXCEPT !.invoked = Append(@, p)]
    /\ rpc' = "agent"
    /\ UNCHANGED <<cfgvars, poolvars, bridgevars, loadvars, tasks, args, tasks_to_run, idx, results>>

\* lines 357-366: agent_fn returns
AgentReturn ==
    /\ rpc = "agent"
    /\ IF runner.completed
       THEN /\ results' = IF counts_as_success(runner.final_result[1])
                          THEN [results EXCEPT !.success = @ + 1]
                          ELSE [results EXCEPT !.failure = @ + 1]
            /\ UNCHANGED <<runner, fs>>
       ELSE LET r == fail(runner, fs, "Agent did not call complete()", <<>>)
            IN  /\ runner' = r.runner
                /\ fs' = r.fs
                /\ results' = [results EXCEPT !.failure = @ + 1]
    /\ hist' = [hist EXCEPT !.outcomes = Append(@, [kind |-> "returned", exc |-> NoneVal,
                                                    completed |-> runner.completed,
                                                    before |-> results])]
    /\ idx' = idx + 1
    /\ rpc' = "loop"
    /\ UNCHANGED <<cfgvars, poolvars, bridgevars, loadvars, tasks, args, tasks_to_run>>

\* lines 368-371: agent_fn raises an Exception whose str() is e
AgentRaise(e) ==
    /\ rpc = "agent"
    /\ LET r == fail(runner, fs, "Exception: " \o e, <<e>>)
       IN  /\ runner' = r.runner
           /\ fs' = r.fs
    /\ results' = [results EXCEPT !.error = @ + 1]
    /\ hist' = [hist EXCEPT !.outcomes = Append(@, [kind |-> "raised", exc |-> e,
                                                    completed |-> runner.completed,
                                                    before |-> results])]
    /\ idx' = idx + 1
    /\ rpc' = "loop"
    /\ UNCHANGED <<cfgvars, poolvars, bridgevars, loadvars, tasks, args, tasks_to_run>>

\* lines 373-374: the loop is over, run_all returns results
Finish ==
    /\ rpc = "loop"
    /\ idx = Len(tasks_to_run)
    /\ rpc' = "done"
    /\ UNCHANGED <<cfgvars, poolvars, bridgevars, loadvars, tasks, fs, runner, args, tasks_to_run, idx, results, hist>>

\* run_all with an agent function that may call complete(), return or raise
Next ==
    \/ \E resume \in BOOLEAN, max_tasks \in {<<>>} \cup {<<n>> : n \in (-1)..MaxTasks} :
          RunAll(resume, max_tasks)
    \/ StartTask
    \/ \E a \in AgentCompleteArgs : Complete(a)
    \/ AgentReturn
    \/ \E e \in Exceptions : AgentRaise(e)
    \/ Finish

Spec == InitBench /\ [][Next]_vars

\* the recorder driven by hand
NextRunner ==
    \/ \E p \in 1..Len(tasks) : CreateRunner(p)
    \/ \E image \in Images, suffix \in Suffixes : Screenshot(image, suffix)
    \/ \E a \in ActionInputs : AddAction(a)
    \/ \E t \in Thoughts : AddThought(t)
    \/ \E a \in CompleteArgs : Complete(a)
    \/ Fail("gave up")

SpecRunner == InitRunner /\ [][NextRunner]_vars

----------------------------------------------------------------------------
(* terminal-bench/todoforai_tbench/agent.py as a state machine: an agent is *)
(* constructed and perform_task is called on it; every session.send_keys    *)
(* returns or raises, and the pane shows what the container printed         *)

\* next_api_key() (lines 83-90) called by a single thread: the key returned
next_key(cfg) == IF cfg.api_keys = <<>> THEN cfg.api_key ELSE KeyAt(cfg.api_keys, cfg.key_counter)

\* next_api_key() called by a single thread: the object afterwards
after_next_key(cfg) ==
    IF cfg.api_keys = <<>> THEN cfg ELSE [cfg EXCEPT !.key_counter = @ + 1]

\* the configurations handed to the agent
AgentDicts ==
    { ("api_key" :> "test-key"),
      ("api_key" :> "test-key") @@ ("default_model" :> "gpt-4o"),
      ("api_key" :> "test-key") @@ ("default_model" :> "gemini-pro")
          @@ ("api_url" :> "https://api.example.com") @@ ("project_id" :> "proj"),
      ("api_keys" :> <<"p1", "p2">>) @@ ("timeout" :> 300) }

\* the model argument: not given, empty, given
ModelArgs == {NoneVal, "", "claude-opus-4"}

\* the wheel file: missing, empty, or a file whose base64 text (a multiple of
\* 4 characters) fills one chunk, one chunk and a rest, two chunks and a rest
Wheels == { <<>>, <<0>>, <<4000>>, <<4004>>, <<8004>> }

\* the files load_config() finds when no config is passed
AgentFiles ==
    { NoFiles,
      [NoFiles EXCEPT !["./tbench.json"] = << ("default_model" :> "file-model") >>] }

Instructions == {"echo hi", "echo 'test'"}

\* the perform_task calls made on one agent
MaxPerformCalls == 2

LoggingDirs == {NoneVal, "logs/run1"}

\* what a blocking send_keys does: it returns, or raises
SendOutcomes == {"ok", "TimeoutError", "RuntimeError"}

\* the pane after the check: None, the marker once (the echoed command line
\* alone), the marker twice
CheckPanes == { <<>>, <<1>>, <<2>> }

Json(kind, d) == [kind |-> kind, d |-> d]

\* the pane after `cat /tmp/tbench_result.json`: None; the file with success
\* true or false; the runner's error text and no file; the TBENCH_RESULT line;
\* a TBENCH_RESULT line holding a list; a wrapped JSON line followed by a
\* TBENCH_RESULT line without token counts; the file followed by a
\* TBENCH_RESULT line with other counts
ResultPanes ==
    { <<>>,
      << << Line(TRUE, TRUE, FALSE, Json("dict",
                 [success |-> TRUE, input_tokens |-> 5, output_tokens |-> 7])),
            Line(FALSE, TRUE, TRUE, Json("dict",
                 [success |-> TRUE, input_tokens |-> 3, output_tokens |-> 4])) >> >>,
      << << Line(FALSE, FALSE, FALSE, Json("invalid", EmptyDict)),
            Line(TRUE, TRUE, FALSE, Json("dict",
                 [success |-> TRUE, input_tokens |-> 5, output_tokens |-> 7])) >> >>,
      << << Line(TRUE, TRUE, FALSE, Json("dict",
                 [success |-> FALSE, input_tokens |-> 5, output_tokens |-> 7])) >> >>,
      << << Line(FALSE, FALSE, FALSE, Json("invalid", EmptyDict)),
            Line(FALSE, FALSE, FALSE, Json("invalid", EmptyDict)) >> >>,
      << << Line(FALSE, TRUE, TRUE, Json("dict",
                 [success |-> FALSE, input_tokens |-> 3, output_tokens |-> 4])) >> >>,
      << << Line(FALSE, FALSE, TRUE, Json("list", EmptyDict)) >> >>,
      << << Line(TRUE, TRUE, FALSE, Json("invalid", EmptyDict)),
            Line(FALSE, FALSE, TRUE, Json("dict", [success |-> TRUE])) >> >> }

\* the shell commands the backend asks the edge to run while the runner waits
BackendAsks == { <<>>, <<"ls /app">> }

\* the names the tests import from agent.py, and the attributes they read
ImportedNames == {"TODOforAIAgent", "TmuxShellRedirector", "ToolCall"}

ReadAttributes == {"config", "model", "total_input_tokens", "tool_calls"}

InitAgent ==
    /\ env = NoEnv
    /\ data \in AgentDicts
    /\ how = "direct"
    /\ config = TBenchConfig(data, env)
    /\ built = TRUE
    /\ dumped = EmptyDict
    /\ NoThreads
    /\ NoBenchmark
    /\ agent = NoAgent
    /\ pt = IdleFrame
    /\ session \in {[NoSession EXCEPT !.wheel = w] : w \in Wheels}
    /\ ahist = NoAgentHistory
    /\ probe = NoProbe
    /\ direct = NoDirect
    /\ files \in AgentFiles
    /\ config_path = NoneVal
    /\ labels = <<>>
    /\ tasks_by_id = EmptyDict
    /\ got = NoGot

\* agent = TODOforAIAgent(config=c, model=m), or TODOforAIAgent(model=m)
NewAgent(given, model) ==
    /\ agent = NoAgent
    /\ LET cfg == IF given THEN config ELSE load_config(NoneVal, files, env)
       IN  /\ agent' = TODOforAIAgent(IF given THEN "c" ELSE "loaded", cfg, model, session.wheel)
           /\ config' = cfg
    /\ ahist' = [ahist EXCEPT !.ctor = <<[given |-> given, model |-> model]>>,
                              !.given = <<config.default_model>>]
    /\ UNCHANGED <<env, data, how, built, dumped, poolvars, benchvars>>
    /\ UNCHANGED <<pt, session, probe, direct, loadvars>>

\* from todoforai_tbench.agent import name (tests/test_agent.py line 13)
ImportFrom(name) ==
    /\ agent = NoAgent
    /\ probe' = [kind |-> "import", name |-> name, outcome |-> import_from_agent(name)]
    /\ UNCHANGED <<cfgvars, poolvars, benchvars, loadvars>>
    /\ UNCHANGED <<agent, pt, session, ahist, direct>>

\* agent.name is read (tests/test_agent.py lines 194-198)
GetAttr(name) ==
    /\ agent # NoAgent
    /\ pt.pc = "idle"
    /\ probe' = [kind |-> "getattr", name |-> name, outcome |-> getattr(agent, name)]
    /\ UNCHANGED <<cfgvars, poolvars, benchvars, loadvars>>
    /\ UNCHANGED <<agent, pt, session, ahist, direct>>

\* TmuxShellRedirector.install(session, tool_calls) (tests/test_agent.py line 134):
\* the name is looked up in agent.py first
InstallRedirector ==
    /\ probe.kind # "call"
    /\ probe' = [kind |-> "call", name |-> "TmuxShellRedirector.install",
                 outcome |-> import_from_agent("TmuxShellRedirector")]
    /\ UNCHANGED <<cfgvars, poolvars, benchvars, loadvars>>
    /\ UNCHANGED <<agent, pt, session, ahist, direct>>

\* perform_task lines 167-172: the call, the first on this agent or one after
\* an earlier call has returned; each call is handed its own session
PerformTask(instruction, logging_dir) ==
    /\ agent # NoAgent
    /\ pt.pc \in {"idle", "done"}
    /\ ahist.calls < MaxPerformCalls
    /\ agent' = reset_counters(agent, logging_dir)
    /\ pt' = [IdleFrame EXCEPT !.pc = "check", !.instruction = instruction]
    /\ session' = [session EXCEPT !.sent = <<>>, !.asked = <<>>, !.executed = <<>>]
    /\ ahist' = [ahist EXCEPT !.calls = @ + 1,
                              !.earlier = @ \o pt.result,
                              !.raised = <<>>,
                              !.pane = <<>>]
    /\ UNCHANGED <<cfgvars, poolvars, benchvars, loadvars>>
    /\ UNCHANGED <<probe, direct>>

\* perform_task lines 180-188: the except clauses, entered with exception e
Caught(e) ==
    /\ pt' = [pt EXCEPT !.pc = "finish", !.todo = <<>>, !.failure_mode = failure_mode(<<e>>)]
    /\ ahist' = [ahist EXCEPT !.raised = <<e>>]

CheckCommand ==
    Keys("test -x /opt/todoforai-venv/bin/python && ... echo __INSTALLED_OK__", "", 10)

\* _install_edge line 212, _check_edge_installed (lines 199-208)
CheckEdgeInstalled(outcome, pane) ==
    /\ pt.pc = "check"
    /\ session' = [session EXCEPT !.sent = Append(@, CheckCommand)]
    /\ IF outcome = "ok"
       THEN /\ pt' = [pt EXCEPT !.pc = "install",
                                !.already_installed = check_edge_installed(pane),
                                !.todo = install_commands(agent, check_edge_installed(pane))]
            /\ UNCHANGED ahist
       ELSE Caught(outcome)
    /\ UNCHANGED <<cfgvars, poolvars, benchvars, loadvars>>
    /\ UNCHANGED <<agent, probe, direct>>

\* one session.send_keys of _install_edge (lines 225-242) or _run_task
\* (lines 250-294); while the runner script runs, the backend has the edge
\* inside the container execute the shell commands asked
SendKeys(outcome, asked) ==
    /\ pt.pc \in {"install", "prologue", "run"}
    /\ pt.todo # <<>>
    /\ (Head(pt.todo).keys # RunnerCommand => asked = <<>>)
    /\ session' = [session EXCEPT !.sent = Append(@, Head(pt.todo)),
                                  !.asked = @ \o asked,
                                  !.executed = @ \o asked]
    /\ IF outcome = "ok"
       THEN /\ pt' = [pt EXCEPT !.todo = Tail(@)]
            /\ UNCHANGED ahist
       ELSE Caught(outcome)
    /\ UNCHANGED <<cfgvars, poolvars, benchvars, loadvars>>
    /\ UNCHANGED <<agent, probe, direct>>

\* _install_edge returns (line 244) and _run_task begins (line 246)
InstallEdgeReturns ==
    /\ pt.pc = "install"
    /\ pt.todo = <<>>
    /\ pt' = [pt EXCEPT !.pc = "prologue", !.todo = run_prologue]
    /\ UNCHANGED <<cfgvars, poolvars, benchvars, loadvars>>
    /\ UNCHANGED <<agent, session, ahist, probe, direct>>

\* _run_task lines 265-276: the environment, with the next key of the pool
BuildEnvironment ==
    /\ pt.pc = "prologue"
    /\ pt.todo = <<>>
    /\ pt' = [pt EXCEPT !.pc = "run",
                        !.todo = run_commands(config, next_key(config), pt.instruction)]
    /\ config' = after_next_key(config)
    /\ UNCHANGED <<env, data, how, built, dumped, poolvars, benchvars, loadvars>>
    /\ UNCHANGED <<agent, session, ahist, probe, direct>>

\* _run_task lines 295-296 and perform_task line 177: the pane is parsed
ParseOutput(pane) ==
    /\ pt.pc = "run"
    /\ pt.todo = <<>>
    /\ LET lines == IF pane = <<>> THEN <<>> ELSE pane[1]
           r     == parse_output(lines, 1)
       IN  IF r.raised # <<>>
           THEN /\ pt' = [pt EXCEPT !.pc = "finish",
                                    !.failure_mode = failure_mode(r.raised)]
                /\ ahist' = [ahist EXCEPT !.raised = r.raised, !.pane = <<pane>>]
                /\ UNCHANGED agent
           ELSE /\ pt' = [pt EXCEPT !.pc = "finish", !.failure_mode = failure_mode(<<>>)]
                /\ ahist' = [ahist EXCEPT !.pane = <<pane>>]
                /\ agent' = IF r.tokens = <<>> THEN agent
                            ELSE [agent EXCEPT !.total_input_tokens = r.tokens[1].input,
                                               !.total_output_tokens = r.tokens[1].output]
    /\ UNCHANGED <<cfgvars, poolvars, benchvars, loadvars>>
    /\ UNCHANGED <<session, probe, direct>>

\* perform_task lines 190-197: _save_logs (lines 320-333) and the return
Return ==
    /\ pt.pc = "finish"
    /\ session' = IF agent.log_dir # NoneVal
                  THEN [session EXCEPT !.summary =
                           << [ input_tokens  |-> agent.total_input_tokens,
                                output_tokens |-> agent.total_output_tokens,
                                model         |-> agent.model ] >>]
                  ELSE session
    /\ pt' = [pt EXCEPT !.pc = "done", !.result = <<AgentResult(agent, pt.failure_mode)>>]
    /\ UNCHANGED <<cfgvars, poolvars, benchvars, loadvars>>
    /\ UNCHANGED <<agent, ahist, probe, direct>>

\* the harness makes one agent per task and calls perform_task once
NextAgent ==
    \/ \E given \in BOOLEAN, model \in ModelArgs : NewAgent(given, model)
    \/ \E i \in Instructions, l \in LoggingDirs : pt.pc = "idle" /\ PerformTask(i, l)
    \/ \E o \in SendOutcomes, p \in CheckPanes : CheckEdgeInstalled(o, p)
    \/ \E o \in SendOutcomes, a \in BackendAsks : SendKeys(o, a)
    \/ InstallEdgeReturns
    \/ BuildEnvironment
    \/ \E p \in ResultPanes : ParseOutput(p)
    \/ Return

SpecAgent == InitAgent /\ [][NextAgent]_vars

\* one agent, given a configuration with a key pool and finding no wheel, on
\* which perform_task is called again after it returned
InitReuse ==
    /\ InitAgent
    /\ data = ("api_keys" :> <<"p1", "p2">>) @@ ("timeout" :> 300)
    /\ session.wheel = <<>>
    /\ files = NoFiles

NextReuse ==
    \/ NewAgent(TRUE, NoneVal)
    \/ \E l \in LoggingDirs : PerformTask("echo hi", l)
    \/ \E o \in SendOutcomes, p \in CheckPanes : CheckEdgeInstalled(o, p)
    \/ \E o \in SendOutcomes, a \in BackendAsks : SendKeys(o, a)
    \/ InstallEdgeReturns
    \/ BuildEnvironment
    \/ \E p \in ResultPanes : ParseOutput(p)
    \/ Return

SpecReuse == InitReuse /\ [][NextReuse]_vars

\* the unit tests of the agent: imports, construction, attribute reads
NextAgentTests ==
    \/ \E n \in ImportedNames : ImportFrom(n)
    \/ InstallRedirector
    \/ \E given \in BOOLEAN, model \in ModelArgs : NewAgent(given, model)
    \/ \E n \in ReadAttributes : GetAttr(n)

SpecAgentTests == InitAgent /\ [][NextAgentTests]_vars

----------------------------------------------------------------------------
(* terminal-bench/todoforai_tbench/direct_agent.py as a state machine: the  *)
(* loop of perform_task, one LLM call or one command at a time              *)

MaxIterations == 2

\* the responses of the LLM: a marker, both markers, a command, neither, a
\* marker next to a command, prose before a block of two lines, a python
\* block alone, and a python block followed by prose and a bash block
DirectResponses ==
    { Response(TRUE, FALSE, <<"Done.">>), Response(FALSE, TRUE, <<"Done.">>),
      Response(TRUE, TRUE, <<"Done.">>),
      Response(FALSE, FALSE, <<"'''bash", "ls", "'''">>),
      Response(FALSE, FALSE, <<"Let me think.">>),
      Response(TRUE, FALSE, <<"'''bash", "ls", "'''">>),
      Response(FALSE, TRUE, <<"'''bash", "ls", "'''">>),
      Response(FALSE, FALSE, <<"Listing:", "'''sh", "ls", "pwd", "'''">>),
      Response(FALSE, FALSE, <<"'''python", "print(1)", "'''">>),
      Response(FALSE, FALSE,
               <<"'''python", "print(1)", "'''", "Run it:", "'''bash", "ls", "'''">>) }

\* response.usage: the OpenAI client may leave it out (line 251)
Usages(provider) ==
    IF provider = "openai" THEN { <<>>, <<[input |-> 1, output |-> 2]>> }
    ELSE { <<[input |-> 1, output |-> 2]>> }

\* the exceptions the LLM client and the session raise, as their str()
DirectExceptions == {"rate limited", "session closed"}

InitDirect ==
    /\ env = NoEnv
    /\ data \in {("max_iterations" :> n) : n \in 0..MaxIterations}
    /\ how = "direct"
    /\ config = TBenchConfig(data, env)
    /\ built = TRUE
    /\ dumped = EmptyDict
    /\ NoThreads
    /\ NoBenchmark
    /\ agent = NoAgent
    /\ pt = IdleFrame
    /\ session = NoSession
    /\ ahist = NoAgentHistory
    /\ probe = NoProbe
    /\ direct \in {[DirectAgentState EXCEPT !.provider = p] : p \in {"anthropic", "openai"}}
    /\ NoLoad

\* perform_task lines 138-146: the state is reset and the task message added
DirectPerformTask(logging_dir) ==
    /\ direct.pc = "idle"
    /\ direct' = [DirectAgentState EXCEPT !.pc = "loop", !.provider = direct.provider,
                                          !.logging_dir = logging_dir,
                                          !.messages = <<"user">>]
    /\ UNCHANGED <<cfgvars, poolvars, benchvars, loadvars>>
    /\ UNCHANGED <<agent, pt, session, ahist, probe>>

\* lines 149-161 with _call_llm (lines 199-264) returning response r
CallLLM(r, usage) ==
    /\ direct.pc = "loop"
    /\ direct.iterations < config.max_iterations
    /\ direct' = after_response(
                    [direct EXCEPT !.iterations = @ + 1,
                                   !.calls = @ + 1,
                                   !.input_tokens = @ + (IF usage = <<>> THEN 0 ELSE usage[1].input),
                                   !.output_tokens = @ + (IF usage = <<>> THEN 0 ELSE usage[1].output),
                                   !.messages = Append(@, "assistant"),
                                   !.responses = Append(@, r)], r)
    /\ UNCHANGED <<cfgvars, poolvars, benchvars, loadvars>>
    /\ UNCHANGED <<agent, pt, session, ahist, probe>>

\* lines 149-153 with the client raising e, caught at lines 185-187
CallLLMRaises(e) ==
    /\ direct.pc = "loop"
    /\ direct.iterations < config.max_iterations
    /\ direct' = [direct EXCEPT !.iterations = @ + 1, !.calls = @ + 1,
                                !.pc = "finish", !.raised = <<e>>,
                                !.failure_mode = error_mode(e)]
    /\ UNCHANGED <<cfgvars, poolvars, benchvars, loadvars>>
    /\ UNCHANGED <<agent, pt, session, ahist, probe>>

\* the else clause of the while loop (lines 181-183)
MaxIterationsReached ==
    /\ direct.pc = "loop"
    /\ ~(direct.iterations < config.max_iterations)
    /\ direct' = [direct EXCEPT !.pc = "finish", !.failure_mode = "max_iterations"]
    /\ UNCHANGED <<cfgvars, poolvars, benchvars, loadvars>>
    /\ UNCHANGED <<agent, pt, session, ahist, probe>>

\* lines 166-173 with _execute_command (lines 303-329): the command is noted
\* and sent; the session returns the output or raises
ExecuteCommand(outcome) ==
    /\ direct.pc = "exec"
    /\ session' = [session EXCEPT !.sent = Append(@,
                      [keys |-> direct.command[1], arg |-> "", block |-> FALSE,
                       max_timeout_sec |-> 0])]
    /\ direct' = IF outcome = "ok"
                 THEN [direct EXCEPT !.commands_executed = Append(@, direct.command[1]),
                                     !.messages = Append(@, "user"),
                                     !.command = <<>>, !.pc = "loop"]
                 ELSE [direct EXCEPT !.commands_executed = Append(@, direct.command[1]),
                                     !.command = <<>>, !.pc = "finish",
                                     !.raised = <<outcome>>,
                                     !.failure_mode = error_mode(outcome)]
    /\ UNCHANGED <<cfgvars, poolvars, benchvars, loadvars>>
    /\ UNCHANGED <<agent, pt, ahist, probe>>

\* lines 189-197: the logs are saved and the AgentResult returned
DirectReturn ==
    /\ direct.pc = "finish"
    /\ direct' = [direct EXCEPT !.pc = "done",
                                !.saved = (direct.logging_dir # NoneVal),
                                !.result = << [ input_tokens  |-> direct.input_tokens,
                                                output_tokens |-> direct.output_tokens,
                                                failure_mode  |-> direct.failure_mode ] >>]
    /\ UNCHANGED <<cfgvars, poolvars, benchvars, loadvars>>
    /\ UNCHANGED <<agent, pt, session, ahist, probe>>

NextDirect ==
    \/ \E l \in LoggingDirs : DirectPerformTask(l)
    \/ \E r \in DirectResponses : \E u \in Usages(direct.provider) : CallLLM(r, u)
    \/ \E e \in DirectExceptions : CallLLMRaises(e)
    \/ MaxIterationsReached
    \/ \E o \in {"ok"} \cup DirectExceptions : ExecuteCommand(o)
    \/ DirectReturn

SpecDirect == InitDirect /\ [][NextDirect]_vars

----------------------------------------------------------------------------
(* config.py : load_config as a state machine: one call on a file system    *)

\* a configuration file at path p: a model name and a key the loader does not know
FileContent(p, model) == ("default_model" :> model) @@ ("origin" :> p)

\* per path: no file, or a file with one of two contents
FileSystems ==
    { fl \in [ConfigPaths -> {<<>>} \cup
                 { <<FileContent(p, m)>> : p \in ConfigPaths, m \in {"gpt-5", "opus"} }] :
         \A p \in ConfigPaths : fl[p] # <<>> => fl[p][1]["origin"] = p }

\* the config_path argument: not given, empty, a file of its own, the file
\* of the working directory
ConfigPathArgs == {NoneVal, "", "custom.json", "./tbench.json"}

InitLoad ==
    /\ env \in {NoEnv, [NoEnv EXCEPT !["TODOFORAI_AGENT"] = "EnvAgent"]}
    /\ data = EmptyDict
    /\ how = "from_file"
    /\ config = Defaults
    /\ built = FALSE
    /\ dumped = EmptyDict
    /\ NoThreads
    /\ NoBenchmark
    /\ NoBridge
    /\ files \in FileSystems
    /\ config_path \in ConfigPathArgs
    /\ labels = <<>>
    /\ tasks_by_id = EmptyDict
    /\ got = NoGot

\* config = load_config(config_path)
LoadConfig ==
    /\ ~built
    /\ config' = load_config(config_path, files, env)
    /\ built' = TRUE
    /\ UNCHANGED <<env, data, how, dumped, poolvars, benchvars, bridgevars, loadvars>>

\* the loaded configuration is written out: config.to_dict()
DumpLoaded ==
    /\ built
    /\ dumped = EmptyDict
    /\ dumped' = to_dict(config)
    /\ UNCHANGED <<env, data, how, config, built, poolvars, benchvars, bridgevars, loadvars>>

NextLoad == LoadConfig \/ DumpLoaded

SpecLoad == InitLoad /\ [][NextLoad]_vars

----------------------------------------------------------------------------
(* Mind2WebBenchmark.__init__ as a state machine: human_label.json is read   *)
(* once, then tasks are looked up                                            *)

MaxItems == 2

\* the items of human_label.json: the two keys every item has, and any of two
\* human labels and a note whose key only mentions human_label
LabelItems ==
    { ("task_id" :> id) @@ ("confirmed_task" :> "do " \o id) @@ l1 @@ l2 @@ l3 :
        id \in TaskIds,
        l1 \in Opt("webjudge_human_label", {"success"}),
        l2 \in Opt("agent_human_label", {"failure"}),
        l3 \in Opt("human_label_note", {"unclear"}) }

\* the ids get_task is asked for: those of the file and one that is in no file
AskedIds == TaskIds \cup {"t9"}

InitLoader ==
    /\ NoConfig
    /\ NoThreads
    /\ NoBenchmark
    /\ NoBridge
    /\ files = NoFiles
    /\ config_path = NoneVal
    /\ labels \in SeqsUpTo(LabelItems, MaxItems)
    /\ tasks_by_id = EmptyDict
    /\ got = NoGot

\* Mind2WebBenchmark.__init__ lines 264-265
LoadTasks ==
    /\ ~got.loaded
    /\ tasks' = load_tasks(labels)
    /\ tasks_by_id' = by_id(load_tasks(labels))
    /\ got' = [got EXCEPT !.loaded = TRUE]
    /\ UNCHANGED <<cfgvars, poolvars, bridgevars, files, config_path, labels>>
    /\ UNCHANGED <<fs, runner, rpc, args, tasks_to_run, idx, results, hist>>

\* benchmark.get_task(id)
GetTask(id) ==
    /\ got.loaded
    /\ got' = [got EXCEPT !.id = id, !.ret = get_task(tasks_by_id, id)]
    /\ UNCHANGED <<cfgvars, poolvars, benchvars, bridgevars>>
    /\ UNCHANGED <<files, config_path, labels, tasks_by_id>>

NextLoader ==
    \/ LoadTasks
    \/ \E id \in AskedIds : GetTask(id)

SpecLoader == InitLoader /\ [][NextLoader]_vars

----------------------------------------------------------------------------
(* Properties of the key rotation *)

\* the threads that are between lines 88 and 90 of next_api_key
InFlight == {t \in threads : th[t].pc \in {"L89", "L89store", "L90"}}

\* the threads whose task is running with a key of the pool
Running == {t \in threads : th[t].pc = "running" /\ th[t].ticket >= 0}

\* C1: Round-robin key rotation. With a pool of n >= 1 keys the k-th call of
\* next_api_key() (k from 0) returns api_keys[k mod n], so any n consecutive
\* calls return every key of the pool exactly once; with an empty pool every
\* call returns api_key.
C1_RoundRobin ==
    LET keys == config.api_keys
        n    == Len(keys)
        m    == Len(returned)
    IN  /\ n >= 1 => \A k \in 0..(m - 1) : returned[k + 1].key = keys[(k % n) + 1]
        /\ n >= 1 => \A s \in 1..(m - n + 1) : \A j \in 1..n :
                        Cardinality({i \in s..(s + n - 1) : returned[i].key = keys[j]}) = 1
        /\ n = 0 => \A k \in 1..m : returned[k].key = config.api_key

\* the rotation has wrapped around a pool of at least two keys
C1_Witness ==
    /\ Len(config.api_keys) >= 2
    /\ Len(returned) > Len(config.api_keys)

\* C2: next_api_key() is thread-safe. Whatever the interleaving, no counter
\* value is handed out twice or skipped, and once m calls have returned and no
\* call is in progress, _key_counter = m and the returned keys are, as a
\* multiset, api_keys[i mod n] for 0 <= i < m.
C2_ThreadSafe ==
    LET keys   == config.api_keys
        n      == Len(keys)
        m      == Len(returned)
        issued == {returned[i].ticket : i \in 1..m} \cup {th[t].ticket : t \in InFlight}
        quiet  == \A t \in threads : th[t].pc \in {"idle", "running"}
    IN  n >= 1 =>
        /\ \A i, j \in 1..m : i # j => returned[i].ticket # returned[j].ticket
        /\ \A t \in InFlight : \A i \in 1..m : returned[i].ticket # th[t].ticket
        /\ \A t, u \in InFlight : t # u => th[t].ticket # th[u].ticket
        /\ issued = 0..(Cardinality(issued) - 1)
        /\ quiet =>
             /\ config.key_counter = m
             /\ \A j \in 1..n :
                  Cardinality({i \in 1..m : returned[i].key = keys[j]})
                    = Cardinality({i \in 0..(m - 1) : (i % n) + 1 = j})

\* a thread waits for the lock that another thread holds, after a first call returned
C2_Witness ==
    \E t, u \in threads :
        /\ t # u
        /\ th[t].pc = "L87"
        /\ config.key_lock = u
        /\ Len(returned) >= 1

\* C3 as stated: a key handed to a running task is handed to no other task
\* while the first one runs (at most one running task per API key).
C3_KeyExclusive ==
    \A t, u \in Running : t # u => th[t].held # th[u].held

\* C3, amended: the rotation is coordinated by a lock around a counter only.
\* A caller waits for the lock and for nothing else, in particular not for a
\* key to be given back; every running task holds the key of its turn,
\* api_keys[turn mod n], so two running tasks hold the same key exactly when
\* their turns differ by a multiple of n.
C3_LockOnly ==
    LET keys == config.api_keys
        n    == Len(keys)
    IN  /\ \A t \in threads :
             th[t].pc = "L87" /\ config.key_lock = 0 => ENABLED Acquire(t)
        /\ \A t \in Running : th[t].held = keys[(th[t].ticket % n) + 1]
        /\ \A t, u \in Running :
             (th[t].held = th[u].held) <=> ((th[t].ticket - th[u].ticket) % n = 0)

\* two tasks run with the same key of a pool of several keys
C3_Witness ==
    \E t, u \in Running :
        /\ t # u
        /\ th[t].held = th[u].held
        /\ Len(config.api_keys) >= 2

----------------------------------------------------------------------------
(* Properties of the configuration loader *)

\* C4: environment variables override the values of the file. A non-empty
\* TODOFORAI_API_URL / _API_KEY / _AGENT (or, for the URL and the key, a
\* non-empty TODO4AI_* variable while the TODOFORAI_* one is unset) is the value
\* of the field of every constructed TBenchConfig.
C4_EnvOverrides ==
    built =>
      /\ Truthy(env["TODOFORAI_API_URL"]) => config.api_url = env["TODOFORAI_API_URL"]
      /\ env["TODOFORAI_API_URL"] = NoneVal /\ Truthy(env["TODO4AI_API_URL"])
            => config.api_url = env["TODO4AI_API_URL"]
      /\ Truthy(env["TODOFORAI_API_KEY"]) => config.api_key = env["TODOFORAI_API_KEY"]
      /\ env["TODOFORAI_API_KEY"] = NoneVal /\ Truthy(env["TODO4AI_API_KEY"])
            => config.api_key = env["TODO4AI_API_KEY"]
      /\ Truthy(env["TODOFORAI_AGENT"]) => config.default_agent = env["TODOFORAI_AGENT"]

\* a config read from a file that gives its own URL, key, pool and agent, built
\* under an environment that sets all three variables
C4_Witness ==
    /\ built /\ how = "from_file"
    /\ {"api_url", "api_key", "api_keys", "default_agent"} \subseteq DOMAIN data
    /\ Truthy(env["TODOFORAI_API_URL"])
    /\ Truthy(env["TODOFORAI_API_KEY"])
    /\ Truthy(env["TODOFORAI_AGENT"])
    /\ config.api_key # data["api_key"]

\* C5 as stated: without environment, every known field given by d has d's
\* value in from_dict(d), and to_dict() gives back d's value for every key of d.
C5_RoundTrip ==
    /\ built =>
         \A k \in (DOMAIN data) \cap known_fields : config[k] = data[k]
    /\ DOMAIN dumped # {} =>
         \A k \in DOMAIN data : k \in DOMAIN dumped /\ dumped[k] = data[k]

\* d's api_key and api_keys, absent taken as the default
GivenKey(d) == IF "api_key" \in DOMAIN d THEN d["api_key"] ELSE ""

GivenPool(d) == IF "api_keys" \in DOMAIN d THEN d["api_keys"] ELSE <<>>

\* the value the round trip gives back for key k of d
RoundTripValue(d, k) ==
    CASE k = "api_url" /\ d[k] = ""
            -> DefaultApiUrl
      [] k = "api_key" /\ d[k] = "" /\ GivenPool(d) # <<>>
            -> GivenPool(d)[1]
      [] k = "api_keys" /\ d[k] = <<>> /\ GivenKey(d) # ""
            -> <<GivenKey(d)>>
      [] OTHER
            -> d[k]

\* C5, amended: the round trip gives back d's value for every key of d, except
\* that an empty api_url comes back as the default URL, an empty api_key as the
\* first key of a non-empty api_keys, and an empty api_keys as [api_key] when
\* api_key is not empty.
C5_RoundTripAmended ==
    /\ built =>
         \A k \in (DOMAIN data) \cap known_fields : config[k] = RoundTripValue(data, k)
    /\ DOMAIN dumped # {} =>
         \A k \in DOMAIN data : k \in DOMAIN dumped /\ dumped[k] = RoundTripValue(data, k)

\* to_dict() was called on a config built from a dictionary with an empty
\* api_key, a pool and an unknown key
C5_Witness ==
    /\ DOMAIN dumped # {}
    /\ how = "from_dict"
    /\ {"api_key", "api_keys", "custom", "api_url"} \subseteq DOMAIN data
    /\ data["api_key"] = "" /\ data["api_keys"] # <<>>

----------------------------------------------------------------------------
(* Properties of the benchmark orchestrator and of the trajectory recorder *)

\* the elements of a sequence
InSeq(q) == {q[i] : i \in 1..Len(q)}

\* a sequence of positions in file order, none twice
Increasing(q) == \A i \in 1..(Len(q) - 1) : q[i] < q[i + 1]

\* the id of the task the current runner records
RunnerId == runner.task.task_id

\* C6: completion is the presence of result.json. In every state the completed
\* and the incomplete tasks are disjoint, hold every loaded task once, in file
\* order, a task is completed iff its result.json exists, and creating a runner
\* (and its directories) does not make its task completed.
C6_CompletionByResultFile ==
    LET comp == get_completed_tasks(tasks, fs)
        inc  == get_incomplete_tasks(tasks, fs)
    IN  /\ InSeq(comp) \cap InSeq(inc) = {}
        /\ InSeq(comp) \cup InSeq(inc) = 1..Len(tasks)
        /\ Increasing(comp) /\ Increasing(inc)
        /\ \A p \in 1..Len(tasks) :
             p \in InSeq(comp) <=> ResultExists(fs, tasks[p].task_id)
        /\ rpc \in {"agent", "manual"} /\ hist.lastop = "init" =>
             /\ fs[RunnerId].dir /\ fs[RunnerId].trajectory
             /\ \A p \in 1..Len(tasks) :
                  tasks[p].task_id = RunnerId => (p \in InSeq(comp) <=> hist.had_result)

\* a runner has just been created for a task without result, while another
\* task is completed
C6_Witness ==
    /\ rpc = "agent" /\ hist.lastop = "init" /\ ~hist.had_result
    /\ get_completed_tasks(tasks, fs) # <<>>
    /\ \E p \in InSeq(get_incomplete_tasks(tasks, fs)) : tasks[p].task_id = RunnerId

\* the positions run_all has to run when max_tasks is not given
Eligible == {p \in 1..Len(tasks) : args.resume => tasks[p].task_id \notin hist.existed}

\* C7: resume skips completed tasks. run_all(resume=True) never invokes agent_fn
\* on a task whose result.json existed when run_all was called and invokes it
\* on the remaining tasks in file order, each at most once; run_all(resume=False)
\* invokes it on every task. (When max_tasks is given the invocations are a
\* prefix of these.)
C7_ResumeSkipsCompleted ==
    rpc \in {"loop", "agent", "done"} =>
        LET inv == hist.invoked
        IN  /\ args.resume => \A i \in 1..Len(inv) : tasks[inv[i]].task_id \notin hist.existed
            /\ Increasing(inv)
            /\ InSeq(inv) \subseteq Eligible
            /\ \A p \in InSeq(inv) : \A q \in Eligible : q < p => q \in InSeq(inv)
            /\ rpc = "done" /\ args.max_tasks = <<>> => InSeq(inv) = Eligible

\* a resumed run without max_tasks is over; it skipped a completed task and ran
\* a task whose directory an interrupted run had left
C7_Witness ==
    /\ rpc = "done" /\ args.resume /\ args.max_tasks = <<>>
    /\ \E p \in 1..Len(tasks) : tasks[p].task_id \in hist.existed
    /\ hist.invoked # <<>>

\* the number of invocations that ended the given way
CountKind(kind) == Cardinality({k \in 1..Len(hist.outcomes) : hist.outcomes[k].kind = kind})

\* C8: every task run by run_all ends with a result document. When agent_fn
\* returns without complete(), a failure result with reason 'Agent did not call
\* complete()' is written and 'failure' is counted; when agent_fn raises, a
\* failure result with the exception text replaces whatever the agent wrote,
\* 'error' alone is counted, and run_all goes on with the next task.
C8_EveryRunEndsWithResult ==
    rpc \in {"loop", "done"} =>
        /\ Len(hist.outcomes) = idx /\ Len(hist.invoked) = idx
        /\ \A k \in 1..idx : ResultExists(fs, tasks[tasks_to_run[k]].task_id)
        /\ results.error = CountKind("raised")
        /\ results.success + results.failure = CountKind("returned")
        /\ idx >= 1 =>
             LET o   == hist.outcomes[idx]
                 doc == fs[tasks[tasks_to_run[idx]].task_id].result[1]
             IN  /\ o.kind = "raised" =>
                       /\ Get(doc, "failure_reason", NoneVal) = "Exception: " \o o.exc
                       /\ Get(doc, "error", NoneVal) = o.exc
                       /\ doc["final_result_response"] = "Exception: " \o o.exc
                       /\ results = [o.before EXCEPT !.error = @ + 1]
                 /\ o.kind = "returned" /\ ~o.completed =>
                       /\ Get(doc, "failure_reason", NoneVal) = "Agent did not call complete()"
                       /\ results = [o.before EXCEPT !.failure = @ + 1]
        /\ rpc = "loop" /\ idx < Len(tasks_to_run) => ENABLED StartTask
        /\ rpc = "done" => idx = Len(tasks_to_run)

\* a run is over in which agent_fn raised after calling complete() on its first
\* task and returned without complete() on its second
C8_Witness ==
    /\ rpc = "done" /\ idx = 2
    /\ hist.outcomes[1].kind = "raised" /\ hist.outcomes[1].completed
    /\ hist.outcomes[2].kind = "returned" /\ ~hist.outcomes[2].completed

\* the rendering of an added action the claim gives: '<selector> -> TYPE' or
\* '<selector> -> TYPE: value' for Action objects and dicts, strings verbatim
Rendered(a) ==
    LET obj == IF a.kind = "Action" THEN a.obj
               ELSE [ action_type |-> Get(a.d, "type", Get(a.d, "action_type", "click")),
                      selector    |-> Get(a.d, "selector", Get(a.d, "element", "")),
                      value       |-> Get(a.d, "value", NoneVal) ]
    IN  IF a.kind = "str" THEN a.text
        ELSE IF obj.value \in {NoneVal, ""}
             THEN "<" \o obj.selector \o "> -> " \o Upper(obj.action_type)
             ELSE "<" \o obj.selector \o "> -> " \o Upper(obj.action_type) \o ": " \o obj.value

\* the document of the last complete() reflects the recorded trajectory
ReflectsTrajectory(doc) ==
    /\ fs[RunnerId].result = <<doc>>
    /\ runner.final_result = <<doc>>
    /\ doc["action_history"] = [i \in 1..Len(hist.action_log) |-> Rendered(hist.action_log[i])]
    /\ doc["thoughts"] = hist.thought_log
    /\ doc["_metadata"].num_actions = Len(hist.action_log)
    /\ doc["_metadata"].num_screenshots = Len(hist.shot_log)

\* C9 as stated: after any add_action, add_thought and screenshot calls followed
\* by complete(), the document returned and written has the added actions and
\* thoughts in call order and the numbers of actions and of screenshots.
C9_DocumentReflectsTrajectory ==
    hist.lastop \in {"complete", "fail"} => ReflectsTrajectory(hist.last_ret[1])

\* the keys of the metadata argument of the last complete()
LastMetaKeys == IF hist.lastmeta = <<>> THEN {} ELSE DOMAIN hist.lastmeta[1]

\* C9, amended: the same, for a complete() whose metadata argument has no
\* action_history and no thoughts key; a metadata entry with one of these keys
\* replaces the recorded list in the document.
C9_DocumentReflectsTrajectoryAmended ==
    hist.lastop \in {"complete", "fail"} =>
        LET doc == hist.last_ret[1]
        IN  /\ LastMetaKeys \cap {"action_history", "thoughts"} = {}
                  => ReflectsTrajectory(doc)
            /\ \A k \in LastMetaKeys \cap {"action_history", "thoughts"} :
                  doc[k] = hist.lastmeta[1][k]
            /\ doc["_metadata"].num_actions = Len(hist.action_log)
            /\ doc["_metadata"].num_screenshots = Len(hist.shot_log)

\* complete(), given metadata without these keys, follows an Action with a
\* value and a dict
C9_Witness ==
    /\ hist.lastop = "complete"
    /\ LastMetaKeys = {"steps"}
    /\ Len(hist.action_log) = 2
    /\ hist.action_log[1].kind = "Action" /\ hist.action_log[1].obj.value = "cats"
    /\ hist.action_log[2].kind = "dict"

\* C10 as stated: the k-th screenshot() call that returns (k from 0) returns
\* <trajectory_dir>/<k>_<suffix>.png and a file exists at that path, for every
\* accepted input (PIL image, bytes, base64 string, file path).
C10_ScreenshotSaved ==
    rpc = "manual" =>
        \A k \in 1..Len(hist.shot_log) :
            LET c == hist.shot_log[k]
            IN  /\ c.ret = Filename(k - 1, c.suffix)
                /\ c.ret \in fs[RunnerId].shots

----------------------------------------------------------------------------
(* Properties of the Terminal-Bench agent *)

\* _install_edge and _run_task both returned normally: no exception ended the
\* try block and _run_task got as far as parsing the pane
ReturnedNormally == ahist.raised = <<>> /\ ahist.pane # <<>>

Forwarded(i) ==
    /\ Cardinality({j \in DOMAIN session.sent :
                       /\ session.sent[j].keys = session.asked[i]
                       /\ session.sent[j].block}) = 1
    /\ "tool_calls" \in DOMAIN agent
    /\ Cardinality({j \in DOMAIN agent.tool_calls :
                       agent.tool_calls[j] =
                           [tool_name |-> "BASH", arguments |-> session.asked[i]]}) = 1

\* C13: after TmuxShellRedirector.install(session, tool_calls) the class holds
\* the created instance, and after a following uninstall() the original
\* execute_block is back: every import of the class from agent.py and every
\* call of install succeeds.
C13_InstallUninstallRestores ==
    /\ (probe.kind = "import" /\ probe.name = "TmuxShellRedirector" => probe.outcome = "ok")
    /\ (probe.kind = "call" => probe.outcome = "ok")

\* C14: every shell command the backend asks for is forwarded to the tmux
\* session exactly once and recorded as exactly one BASH tool call, and a
\* freshly constructed agent has an empty tool_calls list.
C14_CommandsForwardedAndRecorded ==
    /\ (agent # NoAgent /\ pt.pc = "idle" =>
          "tool_calls" \in DOMAIN agent /\ agent.tool_calls = <<>>)
    /\ \A i \in DOMAIN session.asked : Forwarded(i)

\* C15 as stated: TODOforAIAgent(config=c, model=m) has model m and leaves
\* c.default_model unchanged; TODOforAIAgent(config=c) has model
\* c.default_model and agent.config is c.
C15_ModelOverridesConfig ==
    agent # NoAgent /\ ahist.ctor[1].given =>
        /\ agent.config = "c"
        /\ config.default_model = ahist.given[1]
        /\ IF ahist.ctor[1].model # NoneVal
           THEN agent.model = ahist.ctor[1].model
           ELSE agent.model = config.default_model

\* C15 as amended: a non-empty model argument overrides the config default;
\* with no model argument, or an empty one, the model is c.default_model; the
\* config object is c itself and its default_model is unchanged.
C15_NonEmptyModelOverridesConfig ==
    agent # NoAgent /\ ahist.ctor[1].given =>
        /\ agent.config = "c"
        /\ config.default_model = ahist.given[1]
        /\ IF ahist.ctor[1].model \notin {NoneVal, ""}
           THEN agent.model = ahist.ctor[1].model
           ELSE agent.model = config.default_model

\* test_custom_model_override: the config says gpt-4o, the argument claude-opus-4
C15_Witness ==
    /\ agent # NoAgent
    /\ ahist.ctor[1].given
    /\ ahist.ctor[1].model = "claude-opus-4"
    /\ config.default_model = "gpt-4o"
    /\ agent.model = "claude-opus-4"

----------------------------------------------------------------------------
(* Properties of the direct agent *)

\* a response with one of the two markers
HasMarker(r) == r.complete \/ r.failed

\* failure_mode is an 'error: ...' string
IsError(fm) == fm \in {error_mode(e) : e \in DirectExceptions}

\* what C12 says of a call that has returned, but for the 'max_iterations' case
MarkersClassify(rs, fm) ==
    /\ (fm = NoneVal <=> \E i \in DOMAIN rs : rs[i].complete)
    /\ (fm = "agent_declared_failure"
          <=> \E i \in DOMAIN rs : rs[i].failed /\ ~rs[i].complete)
    /\ (IsError(fm) <=> direct.raised # <<>>)
    /\ \A i \in DOMAIN rs : HasMarker(rs[i]) => i = Len(rs)

\* C12 as stated: at most max_iterations LLM calls are made and perform_task
\* returns; failure_mode is None iff a response held TASK_COMPLETE:,
\* 'agent_declared_failure' iff one held TASK_FAILED: and not TASK_COMPLETE:,
\* 'max_iterations' iff max_iterations responses came with no marker in any,
\* 'error: ...' iff an exception was raised; the loop stops at the first marker.
C12_LoopBoundedAndClassified ==
    /\ direct.calls <= config.max_iterations
    /\ (direct.pc = "done" =>
          /\ Len(direct.result) = 1
          /\ MarkersClassify(direct.responses, direct.result[1].failure_mode)
          /\ (direct.result[1].failure_mode = "max_iterations"
                <=> /\ Len(direct.responses) = config.max_iterations
                    /\ \A i \in DOMAIN direct.responses : ~HasMarker(direct.responses[i])))

\* C12 as amended: the same, with failure_mode 'max_iterations' iff
\* max_iterations responses came with no marker in any and no exception was
\* raised.
C12_LoopBoundedAndClassifiedAmended ==
    /\ direct.calls <= config.max_iterations
    /\ (direct.pc = "done" =>
          /\ Len(direct.result) = 1
          /\ MarkersClassify(direct.responses, direct.result[1].failure_mode)
          /\ (direct.result[1].failure_mode = "max_iterations"
                <=> /\ Len(direct.responses) = config.max_iterations
                    /\ \A i \in DOMAIN direct.responses : ~HasMarker(direct.responses[i])
                    /\ direct.raised = <<>>))

\* the last allowed response held a command and the session raised on it
C12_Witness ==
    /\ direct.pc = "done"
    /\ config.max_iterations >= 1
    /\ Len(direct.responses) = config.max_iterations
    /\ \A i \in DOMAIN direct.responses : ~HasMarker(direct.responses[i])
    /\ direct.raised = <<"session closed">>
    /\ direct.result[1].failure_mode = "error: session closed"

----------------------------------------------------------------------------
(* Properties of load_config *)

\* the file load_config is documented to use: the explicit path, then
\* ./tbench.json, then ~/.todoforai/tbench.json; NoneVal when none exists
DocumentedFile ==
    IF Truthy(config_path) /\ files[config_path] # <<>> THEN config_path
    ELSE IF files["./tbench.json"] # <<>> THEN "./tbench.json"
    ELSE IF files["~/.todoforai/tbench.json"] # <<>> THEN "~/.todoforai/tbench.json"
    ELSE NoneVal

\* C16: load_config returns the configuration parsed from the first existing
\* file among the explicit config_path, ./tbench.json and
\* ~/.todoforai/tbench.json, in that order, and the default
\* (environment-only) configuration only when none of them exists.
C16_SearchOrder ==
    built =>
        IF DocumentedFile = NoneVal
        THEN config = TBenchConfig(EmptyDict, env)
        ELSE /\ config = from_file(files[DocumentedFile][1], env)
             /\ config.extra["origin"] = DocumentedFile
             /\ config.default_model = files[DocumentedFile][1]["default_model"]

\* the explicit file is missing, both fixed files exist with different
\* contents, and the one of the working directory was loaded
C16_Witness ==
    /\ built
    /\ config_path = "custom.json"
    /\ files["custom.json"] = <<>>
    /\ files["./tbench.json"] = <<FileContent("./tbench.json", "gpt-5")>>
    /\ files["~/.todoforai/tbench.json"] = <<FileContent("~/.todoforai/tbench.json", "opus")>>
    /\ config.default_model = "gpt-5"

----------------------------------------------------------------------------
(* Properties of the task loader *)

\* the keys of the model's items that end with '_human_label'
LabelKeys(item) == DOMAIN item \cap {"webjudge_human_label", "agent_human_label"}

\* C17: the loader turns each item of human_label.json into exactly one Task,
\* in file order, with the item's task_id, its confirmed_task as description
\* and exactly its entries whose key ends with '_human_label' as human_labels;
\* get_task(id) returns a task with that id for every loaded id and None for
\* any other id.
C17_LoaderKeepsItems ==
    got.loaded =>
        /\ Len(tasks) = Len(labels)
        /\ \A i \in DOMAIN labels :
              /\ tasks[i].task_id = labels[i]["task_id"]
              /\ tasks[i].description = labels[i]["confirmed_task"]
              /\ DOMAIN tasks[i].human_labels = LabelKeys(labels[i])
              /\ \A k \in LabelKeys(labels[i]) : tasks[i].human_labels[k] = labels[i][k]
        /\ (got.id # NoneVal =>
              IF \E i \in DOMAIN labels : labels[i]["task_id"] = got.id
              THEN Len(got.ret) = 1 /\ got.ret[1].task_id = got.id
              ELSE got.ret = <<>>)

\* two items, the first with a human label and a note, and a task was found
C17_Witness ==
    /\ got.loaded
    /\ Len(labels) = 2
    /\ DOMAIN labels[1] = {"task_id", "confirmed_task", "agent_human_label", "human_label_note"}
    /\ labels[2]["task_id"] = "t2"
    /\ got.id = "t2"
    /\ got.ret = <<tasks[2]>>

----------------------------------------------------------------------------
(* Properties of run_all's max_tasks and of the project id *)

\* C18: max_tasks is an upper bound on the tasks run: whenever max_tasks is
\* given (here: any integer from 0 on), run_all invokes agent_fn on at most
\* max_tasks tasks, namely the first max_tasks of the selected tasks.
C18_MaxTasksBounds ==
    rpc \in {"loop", "agent", "done"} /\ args.max_tasks # <<>> /\ args.max_tasks[1] >= 0 =>
        /\ Len(hist.invoked) <= args.max_tasks[1]
        /\ \A p \in InSeq(hist.invoked) :
              Cardinality({q \in Eligible : q <= p}) <= args.max_tasks[1]

\* C19: an empty project-id variable clears the project: with
\* TODOFORAI_PROJECT_ID set to the empty string (and the older
\* TODO4AI_PROJECT_ID naming no project) the constructed TBenchConfig has
\* project_id None, whatever the config file or the constructor supplied.
C19_EmptyProjectIdClears ==
    built /\ env["TODOFORAI_PROJECT_ID"] = "" /\ ~Truthy(env["TODO4AI_PROJECT_ID"]) =>
        config.project_id = NoneVal

\* the API key or the key pool comes from the environment
EnvCredentials ==
    \/ Truthy(env["TODOFORAI_API_KEY"])
    \/ Truthy(env["TODO4AI_API_KEY"])
    \/ env["TODOFORAI_API_KEYS"] # <<"">>

\* the non-empty project-id variables, TODOFORAI_PROJECT_ID first
EnvProjects ==
    (IF Truthy(env["TODOFORAI_PROJECT_ID"]) THEN <<env["TODOFORAI_PROJECT_ID"]>> ELSE <<>>)
        \o (IF Truthy(env["TODO4AI_PROJECT_ID"]) THEN <<env["TODO4AI_PROJECT_ID"]>> ELSE <<>>)

\* C20: a project id from the config file is never combined with credentials
\* from the environment: when the API key or the key pool comes from the
\* environment and no non-empty project-id variable is set, project_id is
\* None; when a non-empty project-id variable is set, project_id equals it
\* (TODOFORAI_PROJECT_ID before TODO4AI_PROJECT_ID).
C20_EnvCredentialsDropFileProject ==
    built =>
        /\ (EnvCredentials /\ EnvProjects = <<>> => config.project_id = NoneVal)
        /\ (EnvProjects # <<>> => config.project_id = EnvProjects[1])

\* the file names a project, the key pool comes from the environment, no
\* API key and no project id does, and the project is gone
C20_Witness ==
    /\ built
    /\ "project_id" \in DOMAIN data
    /\ env["TODOFORAI_API_KEYS"] = <<"k1 ", " k2">>
    /\ ~Truthy(env["TODOFORAI_API_KEY"]) /\ ~Truthy(env["TODO4AI_API_KEY"])
    /\ EnvProjects = <<>>
    /\ config.project_id = NoneVal
    /\ config.api_keys = <<"k1", "k2">>

----------------------------------------------------------------------------
(* Properties of the key handed to the container *)

\* C21: the key actually used honours the environment override: when
\* TODOFORAI_API_KEY is set (non-empty) in the environment and
\* TODOFORAI_API_KEYS is not, next_api_key() of the constructed config, which
\* is the TODOFORAI_API_KEY _run_task exports, returns the environment's key,
\* even when the file supplies its own api_key or api_keys.
C21_UsedKeyHonoursEnv ==
    built /\ Truthy(env["TODOFORAI_API_KEY"]) /\ env["TODOFORAI_API_KEYS"] = <<"">> =>
        next_key(config) = env["TODOFORAI_API_KEY"]

----------------------------------------------------------------------------
(* Properties of the wheel transfer *)

\* the positions in session.sent of the commands starting with keys
At(keys) == {i \in DOMAIN session.sent : session.sent[i].keys = keys}

\* the bootstrap commands of _install_edge (lines 219-222)
BootstrapKeys ==
    { "apt-get update -qq && apt-get install",
      "python3 -m venv /opt/todoforai-venv",
      "/opt/todoforai-venv/bin/pip install -q --upgrade pip" }

\* the commands that transfer and install the wheel (lines 235-239)
WheelPositions ==
    At("> /tmp/edge.whl.b64") \cup At("echo >> /tmp/edge.whl.b64")
        \cup At("base64 -d /tmp/edge.whl.b64 >")
        \cup At("/opt/todoforai-venv/bin/pip install -q --force-reinstall")

\* C22: the edge wheel is transferred losslessly and in order. With a local
\* wheel, every command is sent blocking; /tmp/edge.whl.b64 is truncated once,
\* before the first chunk; the chunks follow the truncation one command each,
\* every chunk non-empty, of at most 4000 characters and starting where the
\* one before ended (the first at offset 0); the decode is sent only right
\* after the chunk that ends at the end of the base64 text, the pip install
\* only right after the decode; and when the edge was not installed, the three
\* bootstrap commands were all sent before any of these.
C22_WheelTransferredInOrder ==
    agent # NoAgent /\ HasWheel(agent) =>
        LET S     == session.sent
            n     == agent.wheel_b64[1]
            trunc == At("> /tmp/edge.whl.b64")
            echo  == At("echo >> /tmp/edge.whl.b64")
            dec   == At("base64 -d /tmp/edge.whl.b64 >")
            pip   == At("/opt/todoforai-venv/bin/pip install -q --force-reinstall")
        IN  /\ \A i \in DOMAIN S : S[i].block
            /\ Cardinality(trunc) <= 1 /\ Cardinality(dec) <= 1 /\ Cardinality(pip) <= 1
            /\ \A i \in echo :
                  /\ i - 1 \in trunc \cup echo
                  /\ S[i].chunk[1].from = (IF i - 1 \in echo THEN S[i - 1].chunk[1].to ELSE 0)
                  /\ S[i].chunk[1].from < S[i].chunk[1].to
                  /\ S[i].chunk[1].to - S[i].chunk[1].from <= 4000
            /\ \A i \in dec : i - 1 \in echo /\ S[i - 1].chunk[1].to = n
            /\ \A i \in pip : i - 1 \in dec
            /\ (pt.pc \notin {"idle", "check"} /\ ~pt.already_installed =>
                  \A i \in WheelPositions : \A b \in BootstrapKeys :
                      \E j \in At(b) : j < i)

\* a wheel of two chunks and a rest was installed into a container that had
\* no edge, and perform_task returned without failure
C22_Witness ==
    /\ agent # NoAgent /\ HasWheel(agent)
    /\ agent.wheel_b64[1] = 8004
    /\ pt.pc = "done" /\ ~pt.already_installed
    /\ pt.result[1].failure_mode = "none"
    /\ Cardinality(At("echo >> /tmp/edge.whl.b64")) = 3
    /\ At("/opt/todoforai-venv/bin/pip install -q --force-reinstall") # {}

----------------------------------------------------------------------------
(* Properties of the commands of the direct agent *)

\* the lines of a response that open or close a fenced code block
FenceLines(lines) ==
    {i \in DOMAIN lines : lines[i] \in {"'''", "'''bash", "'''sh", "'''python"}}

\* the first line of the first fenced code block of a response: the line
\* after the first fence, when the block is closed and not empty
FirstBlockLine(lines) ==
    LET open == {i \in FenceLines(lines) : \A j \in FenceLines(lines) : i <= j}
    IN  {lines[i + 1] : i \in {j \in open : j + 1 \in DOMAIN lines
                                           /\ j + 1 \notin FenceLines(lines)
                                           /\ \E k \in FenceLines(lines) : k > j + 1}}

\* the responses that made perform_task execute a command, in order
RECURSIVE Executing(_)
Executing(rs) ==
    IF rs = <<>> THEN <<>>
    ELSE (IF ~HasMarker(Head(rs)) /\ Head(rs).command # <<>> THEN <<Head(rs)>> ELSE <<>>)
             \o Executing(Tail(rs))

\* C23: at most one command is sent to the session per LLM response, namely
\* the first line of the first fenced code block of the response, and none
\* for a response holding 'TASK_COMPLETE:' or 'TASK_FAILED:'; in every state
\* len(commands_executed) <= iterations <= max_iterations, the commands sent
\* to the session are the commands executed, and every one of them is the
\* first line of the first fenced block of the assistant message it came from.
C23_OneCommandPerResponse ==
    LET d    == direct
        done == IF d.pc = "exec" THEN Len(d.responses) - 1 ELSE Len(d.responses)
        by   == Executing(SubSeq(d.responses, 1, done))
    IN  /\ Len(d.commands_executed) <= d.iterations
        /\ d.iterations <= config.max_iterations
        /\ [i \in DOMAIN session.sent |-> session.sent[i].keys] = d.commands_executed
        /\ Len(d.commands_executed) = Len(by)
        /\ \A i \in DOMAIN by : d.commands_executed[i] \in FirstBlockLine(by[i].lines)
        /\ (d.pc = "exec" =>
                /\ ~HasMarker(d.responses[Len(d.responses)])
                /\ d.command[1] \in FirstBlockLine(d.responses[Len(d.responses)].lines))
        /\ \A i \in DOMAIN d.responses :
                HasMarker(d.responses[i]) => i = Len(d.responses) /\ d.pc # "exec"

----------------------------------------------------------------------------
(* Properties of the token counts *)

\* the first line of the pane that parses as a result record: a line
\* starting with "{" and holding "input_tokens", or a line holding
\* "TBENCH_RESULT:", whose JSON text is valid
FirstRecord(lines) ==
    LET recs == {i \in DOMAIN lines :
                    /\ (lines[i].starts_brace /\ lines[i].has_input_tokens)
                            \/ lines[i].has_marker
                    /\ lines[i].json.kind # "invalid"}
    IN  IF recs = {} THEN <<>>
        ELSE <<lines[CHOOSE i \in recs : \A j \in recs : i <= j]>>

\* the counts of the current call: those of the first record of the pane it
\* read, 0 for a count the record lacks, and 0 for both when no pane was read
\* yet, no line parses or an exception ended the try block
CurrentCounts ==
    LET lines == IF ahist.pane = <<>> \/ ahist.pane[1] = <<>> THEN <<>> ELSE ahist.pane[1][1]
        rec   == FirstRecord(lines)
    IN  IF ahist.raised # <<>> \/ rec = <<>>
        THEN [input |-> 0, output |-> 0]
        ELSE [input  |-> Get(rec[1].json.d, "input_tokens", 0),
              output |-> Get(rec[1].json.d, "output_tokens", 0)]

\* C24: the token counts reported belong to the current task only. From the
\* call of perform_task, before anything is sent, until the pane is parsed
\* both counters are 0; afterwards they are the counts of the first pane line
\* that parses as a result record, later lines ignored, and 0 when no line
\* parses or an exception ended the try block; the AgentResult returned holds
\* these counts, whatever an earlier perform_task on the same agent reported.
C24_TokenCountsOfCurrentTask ==
    /\ (pt.pc = "check" => session.sent = <<>>)
    /\ (pt.pc \in {"check", "install", "prologue", "run"} =>
            agent.total_input_tokens = 0 /\ agent.total_output_tokens = 0)
    /\ (pt.pc \in {"finish", "done"} =>
            /\ agent.total_input_tokens = CurrentCounts.input
            /\ agent.total_output_tokens = CurrentCounts.output)
    /\ (pt.pc = "done" =>
            /\ pt.result[1].input_tokens = CurrentCounts.input
            /\ pt.result[1].output_tokens = CurrentCounts.output)

\* an earlier call on the agent reported 5 and 7 tokens, and the current one,
\* ended by an exception, returned 0 for both
C24_Witness ==
    /\ pt.pc = "done"
    /\ ahist.earlier # <<>>
    /\ ahist.earlier[1].input_tokens = 5 /\ ahist.earlier[1].output_tokens = 7
    /\ ahist.raised # <<>>
    /\ pt.result[1].input_tokens = 0 /\ pt.result[1].output_tokens = 0

====
